---- MODULE Spec2Model ----
(***************************************************************************)
(* A model of prvt: the master-key lifecycle of the info file (cmd),        *)
(* the Azure Blob Storage backend (fs), RemovePath of the repository and    *)
(* the index tree.  Byte slices are tuples (the empty tuple is nil/empty),  *)
(* Go errors are strings ("nil" is the nil error).                          *)
(***************************************************************************)
EXTENDS Integers, Sequences, FiniteSets, TLC

VARIABLES
    info,      \* the *infofile.InfoFile the commands work on
    agent,     \* GPG key ids whose secret key the local GPG agent holds
    typed,     \* what the user types at every passphrase prompt of the session
    res,       \* result of the last GetMasterKey on the current info file
    up,        \* result of UpgradeInfoFile, with the file and unlock before it
    blobs,     \* the container: blob name -> version tag (ETag) and content
    nextTag,   \* the ETag the service gives to the next write
    call,      \* the last backend call: its arguments, the blob before, its results
    wr,        \* the index writers: local index, base tag, position, retries
    index,     \* index.Instance: path -> object id
    rp,        \* RemovePath: its position, the objects and paths to delete
    log,       \* the calls RemovePath made, in order
    out,       \* the res channel of RemovePath: the messages sent, in order
    cache,     \* the metadata cache: the names it holds, most recent first
    get,       \* the last Get: its arguments and results
    rd,        \* the readers: each one's Get or GetWithRange, its position and events
    mux,       \* f.mux: the reader that holds it, or "free"
    sp,        \* one Set: the encrypting goroutine, the pipe, the upload
    bu,        \* the last blobUrl: its arguments and results
    fh,        \* the last request of FileHandler and its response
    nf,        \* the last NewInfoFile: its inputs and what it returned
    st,        \* Server.Start: the positions of Start and of its signal goroutine
    ui,        \* the web UI: the page, its service worker and the messages between them
    tn         \* an IndexTreeNode: its Children, with the last Add and Find on it

keyVars == <<info, agent, typed, res, up>>
storeVars == <<blobs, nextTag, call>>
indexVars == <<wr>>
removeVars == <<index, rp, log, out>>
getVars == <<cache, get>>
rangeVars == <<rd, mux>>
pipeVars == <<sp>>
urlVars == <<bu>>
fileVars == <<fh>>
lateVars == <<nf, st, ui, tn>>
moreVars == <<rangeVars, pipeVars, urlVars, fileVars, lateVars>>
oldVars == <<keyVars, storeVars, indexVars, removeVars, getVars,
             rangeVars, pipeVars, urlVars, fileVars>>
vars == <<info, agent, typed, res, up, blobs, nextTag, call, wr, index, rp, log, out,
          cache, get, rd, mux, sp, bu, fh, nf, st, ui, tn>>

-----------------------------------------------------------------------------
(* Values *)

Nil == <<>>
NoErr == "nil"

\* Largest number of key slots of an info file the model draws.
MaxKeys == 2

Passphrases == {"hunter2", "wrong"}
PromptFail == "^C"
PromptOutcomes == Passphrases \cup {PromptFail}

S1 == <<"s1">>
S2 == <<"s2">>
ShortSalt == <<"short">>
GoodSalts == {S1, S2}

MK1 == <<"key", "random", "m1">>
MK2 == <<"key", "random", "m2">>

GPGIds == {"gpgA", "gpgB"}

-----------------------------------------------------------------------------
(* crypto and utils primitives used by the commands *)

\* crypto.KeyFromPassphrase: Argon2id of passphrase and salt, split in a key
\* and a confirmation hash; fails on a salt of the wrong length.
KeyFromPassphrase(passphrase, salt) ==
    IF salt \in GoodSalts
    THEN [key |-> <<"key", passphrase, salt[1]>>,
          confirmationHash |-> <<"hash", passphrase, salt[1]>>,
          err |-> NoErr]
    ELSE [key |-> Nil, confirmationHash |-> Nil, err |-> "ErrCrypto"]

\* crypto.WrapKey: AEAD seal of the master key under the wrapping key.
WrapKey(wrappingKey, masterKey) == <<"wrap", wrappingKey, masterKey>>

\* crypto.UnwrapKey: opens only under the key the blob was sealed with.
UnwrapKey(wrappingKey, wrapped) ==
    IF Len(wrapped) = 3 /\ wrapped[1] = "wrap" /\ wrapped[2] = wrappingKey
    THEN [key |-> wrapped[3], err |-> NoErr]
    ELSE [key |-> Nil, err |-> "ErrCrypto"]

\* utils.GPGEncrypt: the master key encrypted to a GPG key id.
GPGEncrypt(masterKey, gpgKey) == <<"gpg", gpgKey, masterKey>>

\* utils.GPGDecrypt: succeeds when the agent holds the recipient's secret key.
GPGDecrypt(wrapped, ag) ==
    IF Len(wrapped) = 3 /\ wrapped[1] = "gpg" /\ wrapped[2] \in ag
    THEN [key |-> wrapped[3], err |-> NoErr]
    ELSE [key |-> Nil, err |-> "gpg: decryption failed"]

-----------------------------------------------------------------------------
(* Info files *)

GPGSlot(gpgKey, wrapped) ==
    [GPGKey |-> gpgKey, MasterKey |-> wrapped, Salt |-> Nil, ConfirmationHash |-> Nil]

PassSlot(salt, hash, wrapped) ==
    [GPGKey |-> "", MasterKey |-> wrapped, Salt |-> salt, ConfirmationHash |-> hash]

\* A passphrase slot as AddPassphrase stores it for passphrase "hunter2".
GoodPassSlot(salt, mk) ==
    LET kd == KeyFromPassphrase("hunter2", salt)
    IN PassSlot(salt, kd.confirmationHash, WrapKey(kd.key, mk))

GPGSlots ==
    { GPGSlot("gpgA", GPGEncrypt(MK1, "gpgA")),
      GPGSlot("gpgB", GPGEncrypt(MK2, "gpgB")),
      GPGSlot("gpgA", Nil) }

PassSlots ==
    { GoodPassSlot(S1, MK1),
      GoodPassSlot(S2, MK2),
      \* confirmation hash of "hunter2", wrapped key damaged
      PassSlot(S1, KeyFromPassphrase("hunter2", S1).confirmationHash, <<"corrupt">>),
      \* slots with a missing field
      PassSlot(S1, Nil, WrapKey(KeyFromPassphrase("hunter2", S1).key, MK1)),
      PassSlot(Nil, KeyFromPassphrase("hunter2", S1).confirmationHash,
               WrapKey(KeyFromPassphrase("hunter2", S1).key, MK1)),
      PassSlot(S1, KeyFromPassphrase("hunter2", S1).confirmationHash, Nil) }

Slots == GPGSlots \cup PassSlots

SeqsUpTo(S, n) == UNION { [1..k -> S] : k \in 0..n }

LegacySalts == {Nil, S1, ShortSalt}
LegacyHashes == {Nil, KeyFromPassphrase("hunter2", S1).confirmationHash}

Versions == {1, 2, 3}

InfoFile(v, ks, s, h) == [Version |-> v, Keys |-> ks, Salt |-> s, ConfirmationHash |-> h]

\* InfoFile.Validate, as GetInfoFile applies it to the JSON it fetched: a
\* supported version, and a key to unlock with (a key slot, or for version 1
\* the legacy passphrase fields).
Validate(inf) ==
    /\ inf.Version \in Versions
    /\ inf.Version >= 2 => Len(inf.Keys) >= 1
    /\ inf.Version = 1 =>
          Len(inf.Keys) >= 1 \/ (Len(inf.Salt) # 0 /\ Len(inf.ConfirmationHash) # 0)

\* The info files a repository can hold: version 1 files carry the legacy
\* passphrase fields (either may be missing), later versions carry none.
InfoFiles ==
    { f \in { InfoFile(1, ks, s, h) :
                ks \in SeqsUpTo(Slots, MaxKeys), s \in LegacySalts, h \in LegacyHashes }
             \cup { InfoFile(v, ks, Nil, Nil) :
                      v \in Versions \ {1}, ks \in SeqsUpTo(Slots, MaxKeys) } :
        Validate(f) }

-----------------------------------------------------------------------------
(* GetMasterKey (cmd) *)

\* One attempt of GetMasterKey, in the order the attempts were made.
Attempt(kind, slot) == [kind |-> kind, slot |-> slot]

\* What GetMasterKey returns, with the attempts it made.
Ret(masterKey, keyId, errMessage, err, trace) ==
    [done |-> TRUE, masterKey |-> masterKey, keyId |-> keyId,
     errMessage |-> errMessage, err |-> err, trace |-> trace]

NoRes ==
    [done |-> FALSE, masterKey |-> Nil, keyId |-> "", errMessage |-> "",
     err |-> NoErr, trace |-> <<>>]

\* strconv.Itoa
Itoa(i) == ToString(i)

\* PromptPassphrase: the passphrase typed, or the prompt's error.
PromptPassphrase(ty) ==
    IF ty = PromptFail THEN [key |-> "", err |-> ty] ELSE [key |-> ty, err |-> NoErr]

\* A buggy last return: the named result masterKey is returned as it stands.
FailUnlockNaked(masterKey, trace) ==
    Ret(masterKey, "", "Cannot unlock the repository", "Invalid passphrase", trace)

\* "Tried all keys and nothing worked": nil is returned, whatever the named
\* result masterKey holds by then.
FailUnlock(masterKey, trace) ==
    Ret(Nil, "", "Cannot unlock the repository", "Invalid passphrase", trace)

\* A buggy first loop: a successful decryption does not return, the last one wins.
RECURSIVE GPGLoopNoReturn(_, _, _, _, _)
GPGLoopNoReturn(keys, i, ag, won, trace) ==
    IF i > Len(keys)
    THEN won @@ [trace |-> trace]
    ELSE LET k == keys[i]
             d == GPGDecrypt(k.MasterKey, ag)
             tr == Append(trace, Attempt("gpg", i))
         IN IF k.GPGKey = "" \/ Len(k.MasterKey) = 0
            THEN GPGLoopNoReturn(keys, i + 1, ag, won, trace)
            ELSE IF d.err = NoErr
                 THEN GPGLoopNoReturn(keys, i + 1, ag,
                          [ok |-> TRUE, masterKey |-> d.key, keyId |-> k.GPGKey], tr)
                 ELSE GPGLoopNoReturn(keys, i + 1, ag, won, tr)

GPGLoopLast(keys, i, ag, masterKey, trace) ==
    GPGLoopNoReturn(keys, i, ag, [ok |-> FALSE, masterKey |-> masterKey, keyId |-> ""], trace)

\* The first loop: every slot wrapped with GPG, in slot order, until one decrypts.
\* masterKey is the named result, assigned by every GPGDecrypt.
RECURSIVE GPGLoop(_, _, _, _, _)
GPGLoop(keys, i, ag, masterKey, trace) ==
    IF i > Len(keys)
    THEN [ok |-> FALSE, masterKey |-> masterKey, keyId |-> "", trace |-> trace]
    ELSE LET k == keys[i]
             d == GPGDecrypt(k.MasterKey, ag)
             tr == Append(trace, Attempt("gpg", i))
         IN IF k.GPGKey = "" \/ Len(k.MasterKey) = 0
            THEN GPGLoop(keys, i + 1, ag, masterKey, trace)
            ELSE IF d.err = NoErr
                 THEN [ok |-> TRUE, masterKey |-> d.key, keyId |-> k.GPGKey, trace |-> tr]
                 ELSE GPGLoop(keys, i + 1, ag, d.key, tr)

\* The second loop: every version 2 slot wrapped with a passphrase-derived key,
\* in slot order; j is the position in Keys, i the counter of slots tried.
RECURSIVE PassLoop(_, _, _, _, _, _)
PassLoop(keys, j, i, passphrase, masterKey, trace) ==
    IF j > Len(keys)
    THEN FailUnlock(masterKey, trace)
    ELSE LET k == keys[j]
             kd == KeyFromPassphrase(passphrase, k.Salt)
             u == UnwrapKey(kd.key, k.MasterKey)
             tr == Append(trace, Attempt("pass", j))
         IN IF k.GPGKey # "" \/ Len(k.MasterKey) = 0
            THEN PassLoop(keys, j + 1, i, passphrase, masterKey, trace)
            ELSE IF Len(k.Salt) = 0 \/ Len(k.ConfirmationHash) = 0
            THEN PassLoop(keys, j + 1, i, passphrase, masterKey, trace)
            ELSE IF kd.err = NoErr /\ k.ConfirmationHash = kd.confirmationHash
                 THEN IF u.err # NoErr
                      THEN Ret(Nil, "", "Error while unwrapping the master key", u.err, tr)
                      ELSE Ret(u.key, "p:" \o Itoa(i), "", NoErr, tr)
                 ELSE PassLoop(keys, j + 1, i + 1, passphrase, masterKey, tr)

\* GetMasterKey gets the master key, either from GPG or deriving it from a passphrase.
GetMasterKey(inf, ag, ty) ==
    LET g == GPGLoop(inf.Keys, 1, ag, Nil, <<>>)
        pr == PromptPassphrase(ty)
        tr1 == Append(g.trace, Attempt("prompt", 0))
        hasLegacy == Len(inf.Salt) # 0 /\ Len(inf.ConfirmationHash) # 0
        kd == KeyFromPassphrase(pr.key, inf.Salt)
        tr2 == IF hasLegacy THEN Append(tr1, Attempt("legacy", 0)) ELSE tr1
        mk2 == IF hasLegacy THEN kd.key ELSE g.masterKey
    IN IF g.ok
       THEN Ret(g.masterKey, g.keyId, "", NoErr, g.trace)
       ELSE IF pr.err # NoErr
       THEN Ret(Nil, "", "Error getting passphrase", pr.err, tr1)
       ELSE IF hasLegacy /\ kd.err = NoErr /\ inf.ConfirmationHash = kd.confirmationHash
       THEN Ret(kd.key, "LegacyKey", "", NoErr, tr2)
       ELSE PassLoop(inf.Keys, 1, 0, pr.key, mk2, tr2)

-----------------------------------------------------------------------------
(* UpgradeInfoFile (cmd) *)

\* What can go wrong inside an upgrade besides the passphrase.
Faults == {"none", "salt", "wrap", "add"}

UpRet(inf, errMessage, err) == [info |-> inf, errMessage |-> errMessage, err |-> err]

\* InfoFile.AddPassphrase: appends a passphrase slot to Keys.
AddPassphrase(inf, salt, confirmationHash, wrappedKey) ==
    [inf EXCEPT !.Keys = Append(@, PassSlot(salt, confirmationHash, wrappedKey))]

\* A buggy migration: the arguments of WrapKey are swapped.
upgradeInfoFileV1Swapped(inf, ty, newSalt, fault) ==
    LET pr == PromptPassphrase(ty)
        kd == KeyFromPassphrase(pr.key, inf.Salt)
        nkd == KeyFromPassphrase(pr.key, newSalt)
        added == AddPassphrase(inf, newSalt, nkd.confirmationHash, WrapKey(kd.key, nkd.key))
    IN IF Len(inf.Salt) > 0 /\ Len(inf.ConfirmationHash) > 0
       THEN IF pr.err # NoErr THEN UpRet(inf, "Error getting passphrase", pr.err)
            ELSE IF kd.err # NoErr \/ inf.ConfirmationHash # kd.confirmationHash
            THEN UpRet(inf, "Cannot unlock the repository", "Invalid passphrase")
            ELSE IF fault = "salt" THEN UpRet(inf, "Error generating a new salt", "ErrCrypto")
            ELSE IF nkd.err # NoErr THEN UpRet(inf, "Error deriving the wrapping key", nkd.err)
            ELSE IF fault = "wrap" THEN UpRet(inf, "Error wrapping the master key", "ErrCrypto")
            ELSE IF fault = "add" THEN UpRet(inf, "Error adding the key", "invalid key")
            ELSE UpRet([added EXCEPT !.Salt = Nil, !.ConfirmationHash = Nil], "", NoErr)
       ELSE UpRet(inf, "", NoErr)

\* Upgrade an info file from version 1 to 2: the legacy passphrase becomes a
\* passphrase slot wrapping the master key that was derived from it.
upgradeInfoFileV1(inf, ty, newSalt, fault) ==
    LET pr == PromptPassphrase(ty)
        kd == KeyFromPassphrase(pr.key, inf.Salt)
        nkd == KeyFromPassphrase(pr.key, newSalt)
        added == AddPassphrase(inf, newSalt, nkd.confirmationHash, WrapKey(nkd.key, kd.key))
    IN IF Len(inf.Salt) > 0 /\ Len(inf.ConfirmationHash) > 0
       THEN IF pr.err # NoErr THEN UpRet(inf, "Error getting passphrase", pr.err)
            ELSE IF kd.err # NoErr \/ inf.ConfirmationHash # kd.confirmationHash
            THEN UpRet(inf, "Cannot unlock the repository", "Invalid passphrase")
            ELSE IF fault = "salt" THEN UpRet(inf, "Error generating a new salt", "ErrCrypto")
            ELSE IF nkd.err # NoErr THEN UpRet(inf, "Error deriving the wrapping key", nkd.err)
            ELSE IF fault = "wrap" THEN UpRet(inf, "Error wrapping the master key", "ErrCrypto")
            ELSE IF fault = "add" THEN UpRet(inf, "Error adding the key", "invalid key")
            ELSE UpRet([added EXCEPT !.Salt = Nil, !.ConfirmationHash = Nil], "", NoErr)
       ELSE UpRet(inf, "", NoErr)

\* A buggy UpgradeInfoFile: the version is updated before the migration runs,
\* and stays updated when the migration fails.
UpgradeInfoFileVersionFirst(inf, ty, newSalt, fault) ==
    LET v1 == upgradeInfoFileV1(inf, ty, newSalt, fault)
    IN IF inf.Version # 1 /\ inf.Version # 2
       THEN UpRet(inf, "Unsupported repository version",
                  "This repository has already been upgraded or is using an unsupported version")
       ELSE IF inf.Version < 2 /\ v1.err # NoErr
       THEN UpRet([v1.info EXCEPT !.Version = 3], v1.errMessage, v1.err)
       ELSE UpRet([(IF inf.Version < 2 THEN v1.info ELSE inf) EXCEPT !.Version = 3], "", NoErr)

\* UpgradeInfoFile upgrades an info file to the latest version.
UpgradeInfoFile(inf, ty, newSalt, fault) ==
    LET v1 == upgradeInfoFileV1(inf, ty, newSalt, fault)
    IN IF inf.Version # 1 /\ inf.Version # 2
       THEN UpRet(inf, "Unsupported repository version",
                  "This repository has already been upgraded or is using an unsupported version")
       ELSE IF inf.Version < 2 /\ v1.err # NoErr
       THEN v1
       ELSE UpRet([(IF inf.Version < 2 THEN v1.info ELSE inf) EXCEPT !.Version = 3], "", NoErr)

NoUp == [done |-> FALSE, old |-> InfoFile(0, <<>>, Nil, Nil), pre |-> NoRes,
         errMessage |-> "", err |-> NoErr]

-----------------------------------------------------------------------------
(* The commands on one repository: unlock, upgrade, unlock again *)

\* A command unlocks the repository.
Unlock ==
    /\ ~res.done
    /\ res' = GetMasterKey(info, agent, typed)
    /\ UNCHANGED <<info, agent, typed, up, storeVars, indexVars, removeVars, getVars, moreVars>>

\* prvt repo upgrade.
Upgrade ==
    /\ ~up.done
    /\ \E newSalt \in GoodSalts, fault \in Faults :
          LET r == UpgradeInfoFile(info, typed, newSalt, fault)
          IN /\ info' = r.info
             /\ up' = [done |-> TRUE, old |-> info, pre |-> res,
                       errMessage |-> r.errMessage, err |-> r.err]
    /\ res' = NoRes
    /\ UNCHANGED <<agent, typed, storeVars, indexVars, removeVars, getVars, moreVars>>

-----------------------------------------------------------------------------
(* The unlock order, stated independently of the loops *)

Indices(keys) == [i \in 1..Len(keys) |-> i]

IsGPGCandidate(k) == k.GPGKey # "" /\ Len(k.MasterKey) # 0
IsPassCandidate(k) ==
    k.GPGKey = "" /\ Len(k.MasterKey) # 0 /\ Len(k.Salt) # 0 /\ Len(k.ConfirmationHash) # 0
HasLegacy(inf) == Len(inf.Salt) # 0 /\ Len(inf.ConfirmationHash) # 0

AttemptsOf(kind, idx) == [n \in 1..Len(idx) |-> Attempt(kind, idx[n])]

\* Every attempt an unlock can make, in the order the specification gives.
Canon(inf) ==
    AttemptsOf("gpg", SelectSeq(Indices(inf.Keys), LAMBDA i : IsGPGCandidate(inf.Keys[i])))
    \o <<Attempt("prompt", 0)>>
    \o (IF HasLegacy(inf) THEN <<Attempt("legacy", 0)>> ELSE <<>>)
    \o AttemptsOf("pass", SelectSeq(Indices(inf.Keys), LAMBDA i : IsPassCandidate(inf.Keys[i])))

\* The derived confirmation hash matches the stored one.
HashMatches(ty, salt, hash) ==
    /\ ty \in Passphrases
    /\ KeyFromPassphrase(ty, salt).err = NoErr
    /\ KeyFromPassphrase(ty, salt).confirmationHash = hash

\* The master key attempt a yields, Nil when the attempt does not succeed.
Yield(inf, ag, ty, a) ==
    CASE a.kind = "gpg" -> GPGDecrypt(inf.Keys[a.slot].MasterKey, ag).key
      [] a.kind = "legacy" ->
            IF HashMatches(ty, inf.Salt, inf.ConfirmationHash)
            THEN KeyFromPassphrase(ty, inf.Salt).key ELSE Nil
      [] a.kind = "pass" ->
            IF HashMatches(ty, inf.Keys[a.slot].Salt, inf.Keys[a.slot].ConfirmationHash)
            THEN UnwrapKey(KeyFromPassphrase(ty, inf.Keys[a.slot].Salt).key,
                           inf.Keys[a.slot].MasterKey).key
            ELSE Nil
      [] OTHER -> Nil

Succeeds(inf, ag, ty, a) == Yield(inf, ag, ty, a) # Nil

\* The attempt ends the unlock with an error: the prompt fails, or a slot's
\* confirmation hash matches and its wrapped key does not open.
Aborts(inf, ag, ty, a) ==
    \/ a.kind = "prompt" /\ ty = PromptFail
    \/ /\ a.kind = "pass"
       /\ HashMatches(ty, inf.Keys[a.slot].Salt, inf.Keys[a.slot].ConfirmationHash)
       /\ ~Succeeds(inf, ag, ty, a)

IsPrefix(s, t) == Len(s) <= Len(t) /\ \A n \in 1..Len(s) : s[n] = t[n]

Last(s) == s[Len(s)]

WrongPassphrase(inf, ag, ty) ==
    /\ ty \in Passphrases
    /\ \A i \in 1..Len(inf.Keys) :
          /\ IsGPGCandidate(inf.Keys[i]) => ~Succeeds(inf, ag, ty, Attempt("gpg", i))
          /\ ~HashMatches(ty, inf.Keys[i].Salt, inf.Keys[i].ConfirmationHash)
    /\ ~HashMatches(ty, inf.Salt, inf.ConfirmationHash)

\* C2: with a wrong passphrase the unlock fails with the unlock error, and a
\* failing GetMasterKey returns a nil master key on every return path.
C2_WrongPassphraseNoKey ==
    res.done =>
        /\ WrongPassphrase(info, agent, typed) =>
              /\ res.errMessage = "Cannot unlock the repository"
              /\ res.err = "Invalid passphrase"
        /\ res.err # NoErr => res.masterKey = Nil /\ res.keyId = ""

\* C2 witness: a failed unlock with a wrong passphrase after a candidate key
\* was derived from the legacy salt.
C2_Witness ==
    /\ res.done /\ res.err # NoErr
    /\ WrongPassphrase(info, agent, typed)
    /\ HasLegacy(info)
    /\ KeyFromPassphrase(typed, info.Salt).key # Nil
    /\ \E n \in 1..Len(res.trace) : res.trace[n].kind = "legacy"

\* The layout of a version 1 file: passphrases live in the legacy fields only,
\* GPG keys are already in the Keys slice.
IsV1Layout(inf) ==
    inf.Version = 1 /\ \A i \in 1..Len(inf.Keys) : inf.Keys[i].GPGKey # ""

\* C3: a version 1 info file that unlocks, once upgraded, unlocks with the same
\* passphrase to the same master key, and has version 3.
C3_UpgradeKeepsMasterKey ==
    (/\ up.done /\ up.err = NoErr
     /\ IsV1Layout(up.old)
     /\ up.pre.done /\ up.pre.err = NoErr)
    => /\ info.Version = 3
       /\ res.done => res.err = NoErr /\ res.masterKey = up.pre.masterKey

\* C3 witness: a version 1 file unlocked by its legacy passphrase, upgraded,
\* and unlocked again through the new passphrase slot.
C3_Witness ==
    /\ up.done /\ up.err = NoErr
    /\ IsV1Layout(up.old)
    /\ up.pre.done /\ up.pre.keyId = "LegacyKey"
    /\ res.done /\ res.keyId = "p:0"

\* C4: every info file of version 2 or later has empty legacy fields; after a
\* successful UpgradeInfoFile of a version 1 or 2 file the version is 3 and
\* both legacy fields are empty.
C4_NoLegacyFromV2 ==
    /\ info.Version >= 2 => info.Salt = Nil /\ info.ConfirmationHash = Nil
    /\ (up.done /\ up.err = NoErr /\ up.old.Version \in {1, 2}) =>
          info.Version = 3 /\ info.Salt = Nil /\ info.ConfirmationHash = Nil

\* The info files a failed unlock is compared with.
SmallInfoFiles == { f \in InfoFiles : Len(f.Keys) <= 1 }

\* C5: a failed unlock returns the same error message and the same error as
\* the failed unlock, with the same passphrase, of any other info file no
\* slot of which matches: with or without GPG slots, near match or not.
C5_FailuresIndistinguishable ==
    (res.done /\ res.err # NoErr /\ typed \in Passphrases) =>
        \A other \in SmallInfoFiles, ag \in SUBSET GPGIds :
            WrongPassphrase(other, ag, typed) =>
                /\ GetMasterKey(other, ag, typed).errMessage = res.errMessage
                /\ GetMasterKey(other, ag, typed).err = res.err

-----------------------------------------------------------------------------
(* AzureStorage (fs): conditional writes *)

\* Largest ETag the service hands out in the model.
MaxTag == 3

\* A nil tag (no ETag).
NilTag == 0

\* Blob names: the index and two objects.
Names == {"_index", "o1", "o2"}

\* Blob contents.
Contents == {{"a"}, {"b"}}

NoBlob == [tag |-> NilTag, data |-> {}, complete |-> TRUE]
Exists(blob) == blob.tag # NilTag

\* Outcomes of the transport of one request.
NetOutcomes == {"ok", "network error"}

\* A buggy blobAccessConditions: nothing is required when a tag is given.
blobAccessConditionsLoose(tag) ==
    IF tag = NilTag
    THEN [IfNoneMatch |-> "*", IfMatch |-> NilTag]
    ELSE [IfNoneMatch |-> "", IfMatch |-> NilTag]

\* A buggy blobAccessConditions: no "only if absent" without a tag.
blobAccessConditionsOverwrite(tag) ==
    IF tag = NilTag
    THEN [IfNoneMatch |-> "", IfMatch |-> NilTag]
    ELSE [IfNoneMatch |-> "", IfMatch |-> tag]

\* The BlobAccessConditions for upload operations, given a tag.
blobAccessConditions(tag) ==
    IF tag = NilTag
    THEN [IfNoneMatch |-> "*", IfMatch |-> NilTag]
    ELSE [IfNoneMatch |-> "", IfMatch |-> tag]

\* The Blob service evaluating the conditional headers of a request.
ConditionsMet(blob, accessConditions) ==
    /\ accessConditions.IfNoneMatch = "*" => ~Exists(blob)
    /\ accessConditions.IfMatch # NilTag => Exists(blob) /\ blob.tag = accessConditions.IfMatch

\* What a backend call returns, with the container after it.
StoreRet(bs, nt, tagOut, err) == [blobs |-> bs, nextTag |-> nt, tagOut |-> tagOut, err |-> err]

\* azblob.UploadStreamToBlockBlob: commits the stream as the blob when the
\* request gets through and the access conditions are met.
UploadStreamToBlockBlob(bs, nt, name, data, complete, accessConditions, net) ==
    IF net # "ok"
    THEN StoreRet(bs, nt, NilTag, "network error while uploading the file")
    ELSE IF ~ConditionsMet(bs[name], accessConditions)
    THEN StoreRet(bs, nt, NilTag, "Azure Storage error failed while uploading the file: 412")
    ELSE StoreRet([bs EXCEPT ![name] = [tag |-> nt, data |-> data, complete |-> complete]],
                  nt + 1, nt, NoErr)

\* AzureStorage.RawSet
RawSet(bs, nt, name, data, tag, net) ==
    IF name = ""
    THEN StoreRet(bs, nt, NilTag, "name is empty")
    ELSE UploadStreamToBlockBlob(bs, nt, name, data, TRUE, blobAccessConditions(tag), net)

\* AzureStorage.Set: the producer encrypts into the pipe, the upload commits
\* what came out of the pipe; the encryption error, if any, is what Set returns.
Set(bs, nt, name, data, tag, innerErr, net) ==
    LET r == UploadStreamToBlockBlob(bs, nt, name, data, innerErr = NoErr,
                                     blobAccessConditions(tag), net)
    IN IF name = ""
       THEN StoreRet(bs, nt, NilTag, "name is empty")
       ELSE IF innerErr # NoErr
       THEN StoreRet(r.blobs, r.nextTag, NilTag, innerErr)
       ELSE r

\* AzureStorage.RawGet of a whole blob.
RawGet(bs, name, net) ==
    IF net # "ok"
    THEN [found |-> FALSE, tag |-> NilTag, data |-> {}, err |-> "network error while downloading the file"]
    ELSE IF ~Exists(bs[name]) \/ bs[name].data = {}
    THEN [found |-> FALSE, tag |-> NilTag, data |-> {}, err |-> NoErr]
    ELSE [found |-> TRUE, tag |-> bs[name].tag, data |-> bs[name].data, err |-> NoErr]

NoCall == [op |-> "none", name |-> "", tag |-> NilTag, pre |-> NoBlob,
           tagOut |-> NilTag, err |-> NoErr]

Call(op, name, tag, pre, r) ==
    [op |-> op, name |-> name, tag |-> tag, pre |-> pre, tagOut |-> r.tagOut, err |-> r.err]

\* The tags a caller can hold: nil, or an ETag the service gave out.
KnownTags == NilTag .. (nextTag - 1)

\* A caller writes a blob with RawSet.
DoRawSet ==
    /\ nextTag <= MaxTag
    /\ \E name \in Names, data \in Contents, tag \in KnownTags, net \in NetOutcomes :
          LET r == RawSet(blobs, nextTag, name, data, tag, net)
          IN /\ blobs' = r.blobs
             /\ nextTag' = r.nextTag
             /\ call' = Call("RawSet", name, tag, blobs[name], r)
    /\ UNCHANGED <<keyVars, indexVars, removeVars, getVars, moreVars>>

\* A caller writes an encrypted file with Set.
DoSet ==
    /\ nextTag <= MaxTag
    /\ \E name \in Names, data \in Contents, tag \in KnownTags,
          innerErr \in {NoErr, "ErrCrypto"}, net \in NetOutcomes :
          LET r == Set(blobs, nextTag, name, data, tag, innerErr, net)
          IN /\ blobs' = r.blobs
             /\ nextTag' = r.nextTag
             /\ call' = Call("Set", name, tag, blobs[name], r)
    /\ UNCHANGED <<keyVars, indexVars, removeVars, getVars, moreVars>>

\* C6: RawSet and Set are conditional writes: without a tag the blob is
\* written only if none exists at that name, with a tag only if the blob's
\* current version tag equals it; a successful write returns the new tag.
C6_ConditionalWrite ==
    call.op \in {"RawSet", "Set"} =>
        LET written == blobs[call.name] # call.pre
        IN /\ (written \/ call.err = NoErr) =>
                 IF call.tag = NilTag
                 THEN ~Exists(call.pre)
                 ELSE Exists(call.pre) /\ call.pre.tag = call.tag
           /\ call.err = NoErr =>
                 /\ written
                 /\ call.tagOut # NilTag
                 /\ call.tagOut = blobs[call.name].tag
                 /\ call.tagOut # call.pre.tag

\* C6 witness: a write with the current tag replaced a blob, and a write
\* without a tag was refused because the blob exists.
C6_Witness ==
    \/ /\ call.op = "Set" /\ call.err = NoErr
       /\ call.tag # NilTag /\ Exists(call.pre) /\ call.tagOut > call.tag
    \/ /\ call.op = "RawSet" /\ call.err # NoErr
       /\ call.tag = NilTag /\ Exists(call.pre) /\ blobs[call.name] = call.pre

-----------------------------------------------------------------------------
(* The index store: save by compare-and-swap on the blob "_index" *)

Writers == {"A", "B"}

\* The path a writer adds to the index.
PathOf(w) == IF w = "A" THEN "/a" ELSE "/b"

\* The index store retries a conflicting save this many times.
IndexRetries == 5

NewWriter == [pc |-> "load", local |-> {}, base |-> NilTag, retries |-> 0, err |-> NoErr]

\* Load: fetch "_index", keep its entries and its tag as the base of the save.
WLoad(w) ==
    /\ wr[w].pc = "load"
    /\ \E net \in NetOutcomes :
          LET g == RawGet(blobs, "_index", net)
          IN wr' = [wr EXCEPT ![w] =
                      IF g.err # NoErr
                      THEN [@ EXCEPT !.pc = "done", !.err = g.err]
                      ELSE [@ EXCEPT !.pc = "mutate", !.local = g.data, !.base = g.tag]]
    /\ UNCHANGED <<keyVars, storeVars, removeVars, getVars, moreVars>>

\* The pending mutation, applied to (or replayed on) the index just loaded.
WMutate(w) ==
    /\ wr[w].pc = "mutate"
    /\ wr' = [wr EXCEPT ![w] = [@ EXCEPT !.pc = "save", !.local = @ \cup {PathOf(w)}]]
    /\ UNCHANGED <<keyVars, storeVars, removeVars, getVars, moreVars>>

\* Save: RawSet with the base tag; on a tag mismatch reload, replay and retry.
WSave(w) ==
    /\ wr[w].pc = "save"
    /\ \E net \in NetOutcomes :
          LET r == RawSet(blobs, nextTag, "_index", wr[w].local, wr[w].base, net)
          IN /\ blobs' = r.blobs
             /\ nextTag' = r.nextTag
             /\ call' = Call("RawSet", "_index", wr[w].base, blobs["_index"], r)
             /\ wr' = [wr EXCEPT ![w] =
                         IF r.err = NoErr
                         THEN [@ EXCEPT !.pc = "done", !.base = r.tagOut]
                         ELSE IF net # "ok"
                         THEN [@ EXCEPT !.pc = "done", !.err = r.err]
                         ELSE IF @.retries < IndexRetries
                         THEN [@ EXCEPT !.pc = "load", !.retries = @ + 1]
                         ELSE [@ EXCEPT !.pc = "done", !.err = "ErrIndexConflict"]]
    /\ UNCHANGED <<keyVars, removeVars, getVars, moreVars>>

WritersDone == \A w \in Writers : wr[w].pc = "done"

\* C7: two writers adding disjoint paths to the index through tag-conditional
\* RawSet: both finish, no save ever drops an entry of the index, no writer
\* ends in a conflict, a writer retries at most once, and when both are done
\* the path of every writer that saved is in the index.
C7_IndexCAS ==
    /\ <>WritersDone
    /\ [][blobs["_index"].data \subseteq blobs'["_index"].data]_vars
    /\ [](\A w \in Writers :
            /\ wr[w].err # "ErrIndexConflict"
            /\ wr[w].retries <= 1
            /\ (WritersDone /\ wr[w].err = NoErr) => PathOf(w) \in blobs["_index"].data)

\* C7 witness: both writers saved, one of them after a conflict and a retry.
C7_Witness ==
    /\ WritersDone
    /\ \A w \in Writers : wr[w].err = NoErr
    /\ \E w \in Writers : wr[w].retries = 1
    /\ {"/a", "/b"} \subseteq blobs["_index"].data

-----------------------------------------------------------------------------
(* AzureStorage.Delete (fs) *)

\* A buggy Delete: the tag is ignored, every delete is unconditional.
DeleteIgnoringTag(bs, name, tag, net) ==
    IF name = ""
    THEN [blobs |-> bs, err |-> "name is empty"]
    ELSE IF net # "ok"
    THEN [blobs |-> bs, err |-> net]
    ELSE IF ~Exists(bs[name])
    THEN [blobs |-> bs, err |-> "404 The specified blob does not exist"]
    ELSE [blobs |-> [bs EXCEPT ![name] = NoBlob], err |-> NoErr]

\* AzureStorage.Delete: without a tag the delete is always allowed, with a
\* tag only if the blob still has it; a blob that is not there cannot be deleted.
Delete(bs, name, tag, net) ==
    LET accessConditions ==
            IF tag # NilTag
            THEN [IfNoneMatch |-> "", IfMatch |-> tag]
            ELSE [IfNoneMatch |-> "", IfMatch |-> NilTag]
    IN IF name = ""
       THEN [blobs |-> bs, err |-> "name is empty"]
       ELSE IF net # "ok"
       THEN [blobs |-> bs, err |-> net]
       ELSE IF ~Exists(bs[name])
       THEN [blobs |-> bs, err |-> "404 The specified blob does not exist"]
       ELSE IF ~ConditionsMet(bs[name], accessConditions)
       THEN [blobs |-> bs, err |-> "412 The condition specified was not met"]
       ELSE [blobs |-> [bs EXCEPT ![name] = NoBlob], err |-> NoErr]

-----------------------------------------------------------------------------
(* Repository.RemovePath (repository) *)

\* Largest number of entries of the index the model draws.
MaxEntries == 2

\* Paths are sequences of components; a trailing "" is a trailing slash.
FilePaths == {<<"docs", "a">>, <<"docs", "b">>, <<"x">>}
Requests == {<<"docs", "">>, <<"docs">>, <<"docs", "a">>, <<"x">>, <<"nope">>}
ObjectIds == {"o1", "o2"}

Entry(path, obj) == [path |-> path, obj |-> obj]

\* The indexes: no two entries share a path or an object.
Indexes ==
    { ix \in SeqsUpTo({Entry(p, o) : p \in FilePaths, o \in ObjectIds}, MaxEntries) :
        \A m, n \in 1..Len(ix) : m # n => ix[m].path # ix[n].path /\ ix[m].obj # ix[n].obj }

\* The entries a path names: everything below it when it ends in a slash
\* or names no file, the file itself otherwise.
Below(path, prefix) == Len(prefix) < Len(path) /\ IsPrefix(prefix, path)
Selected(ix, req) ==
    LET isDir == Len(req) > 0 /\ Last(req) = ""
        dir == IF isDir THEN SubSeq(req, 1, Len(req) - 1) ELSE req
        exact == \E n \in 1..Len(ix) : ix[n].path = req
    IN [n \in 1..Len(ix) |->
          IF isDir \/ ~exact THEN Below(ix[n].path, dir) ELSE ix[n].path = req]

Project(ix, field) == [n \in 1..Len(ix) |-> ix[n][field]]

\* Index.DeleteFile: removes the entries the path names from the index and
\* returns their object ids and paths, in index order.
DeleteFile(ix, req, fault) ==
    LET sel == Selected(ix, req)
        gone == SelectSeq(Indices(ix), LAMBDA n : sel[n])
        kept == SelectSeq(Indices(ix), LAMBDA n : ~sel[n])
        removed == [k \in 1..Len(gone) |-> ix[gone[k]]]
    IN IF fault # NoErr
       THEN [index |-> ix, objects |-> <<>>, paths |-> <<>>, err |-> fault]
       ELSE [index |-> [k \in 1..Len(kept) |-> ix[kept[k]]],
             objects |-> Project(removed, "obj"), paths |-> Project(removed, "path"),
             err |-> NoErr]

PathResultMessage(path, status) == [Path |-> path, Status |-> status]

IdleRemove == [pc |-> "idle", path |-> <<>>, objects |-> <<>>, paths |-> <<>>, i |-> 0]

\* A buggy start: the objects are looked up and the index entries are left in place.
RP_StartKeepEntries ==
    /\ rp.pc = "idle"
    /\ \E req \in Requests :
          LET d == DeleteFile(index, req, NoErr)
          IN /\ index' = index
             /\ log' = Append(log, [op |-> "DeleteFile", arg |-> req, tag |-> NilTag, err |-> d.err])
             /\ out' = IF Len(d.objects) < 1
                       THEN Append(out, PathResultMessage(req, "NotFound")) ELSE out
             /\ rp' = IF Len(d.objects) < 1
                      THEN [IdleRemove EXCEPT !.pc = "done", !.path = req]
                      ELSE [pc |-> "loop", path |-> req, objects |-> d.objects,
                            paths |-> d.paths, i |-> 1]
    /\ UNCHANGED <<keyVars, storeVars, indexVars, getVars, moreVars>>

\* A buggy start: nothing is sent when the index returns no objects.
RP_StartSilent ==
    /\ rp.pc = "idle"
    /\ \E req \in Requests, fault \in {NoErr, "index error"} :
          LET d == DeleteFile(index, req, fault)
          IN /\ index' = d.index
             /\ log' = Append(log, [op |-> "DeleteFile", arg |-> req, tag |-> NilTag, err |-> d.err])
             /\ out' = IF d.err # NoErr
                       THEN Append(out, PathResultMessage(req, "InternalError"))
                       ELSE out
             /\ rp' = IF d.err # NoErr \/ Len(d.objects) < 1
                      THEN [IdleRemove EXCEPT !.pc = "done", !.path = req]
                      ELSE [pc |-> "loop", path |-> req, objects |-> d.objects,
                            paths |-> d.paths, i |-> 1]
    /\ UNCHANGED <<keyVars, storeVars, indexVars, getVars, moreVars>>

\* RemovePath up to its loop: remove from the index and get the list of
\* objects to delete; report an index error or an empty list and return.
RP_Start ==
    /\ rp.pc = "idle"
    /\ \E req \in Requests, fault \in {NoErr, "index error"} :
          LET d == DeleteFile(index, req, fault)
          IN /\ index' = d.index
             /\ log' = Append(log, [op |-> "DeleteFile", arg |-> req, tag |-> NilTag, err |-> d.err])
             /\ out' = IF d.err # NoErr
                       THEN Append(out, PathResultMessage(req, "InternalError"))
                       ELSE IF Len(d.objects) < 1
                       THEN Append(out, PathResultMessage(req, "NotFound"))
                       ELSE out
             /\ rp' = IF d.err # NoErr \/ Len(d.objects) < 1
                      THEN [IdleRemove EXCEPT !.pc = "done", !.path = req]
                      ELSE [pc |-> "loop", path |-> req, objects |-> d.objects,
                            paths |-> d.paths, i |-> 1]
    /\ UNCHANGED <<keyVars, storeVars, indexVars, getVars, moreVars>>

\* A buggy loop body: the first failing delete ends the loop.
RP_DeleteBreak ==
    /\ rp.pc = "loop"
    /\ \E net \in NetOutcomes :
          LET d == Delete(blobs, rp.objects[rp.i], NilTag, net)
          IN /\ blobs' = d.blobs
             /\ log' = Append(log, [op |-> "Delete", arg |-> rp.objects[rp.i],
                                    tag |-> NilTag, err |-> d.err])
             /\ out' = Append(out, PathResultMessage(rp.paths[rp.i],
                                  IF d.err # NoErr THEN "InternalError" ELSE "OK"))
             /\ rp' = [rp EXCEPT !.i = @ + 1,
                                 !.pc = IF rp.i = Len(rp.objects) \/ d.err # NoErr
                                        THEN "done" ELSE "loop"]
    /\ UNCHANGED <<keyVars, nextTag, call, indexVars, index, getVars, moreVars>>

\* One turn of the loop of RemovePath: delete object i from the store and
\* send the result for its path.
RP_Delete ==
    /\ rp.pc = "loop"
    /\ \E net \in NetOutcomes :
          LET d == Delete(blobs, rp.objects[rp.i], NilTag, net)
          IN /\ blobs' = d.blobs
             /\ log' = Append(log, [op |-> "Delete", arg |-> rp.objects[rp.i],
                                    tag |-> NilTag, err |-> d.err])
             /\ out' = Append(out, PathResultMessage(rp.paths[rp.i],
                                  IF d.err # NoErr THEN "InternalError" ELSE "OK"))
             /\ rp' = [rp EXCEPT !.i = @ + 1,
                                 !.pc = IF rp.i = Len(rp.objects) THEN "done" ELSE "loop"]
    /\ UNCHANGED <<keyVars, nextTag, call, indexVars, index, getVars, moreVars>>

Deletes == SelectSeq(log, LAMBDA c : c.op = "Delete")

\* C8: RemovePath issues no backend Delete before Index.DeleteFile has
\* returned: whenever a Delete has been issued, the first call was DeleteFile
\* and the index holds no entry for any object or path being deleted, so a
\* failing Delete leaves at most an object the index no longer names.
C8_IndexFirst ==
    \A n \in 1..Len(log) :
        log[n].op = "Delete" =>
            /\ n > 1 /\ log[1].op = "DeleteFile" /\ log[1].err = NoErr
            /\ \A m \in 1..Len(index) :
                  /\ \A k \in 1..Len(rp.objects) :
                        index[m].obj # rp.objects[k] /\ index[m].path # rp.paths[k]
                  /\ index[m].obj # log[n].arg

\* C8 witness: a backend Delete failed after the entries left the index, and
\* the object is still in the store.
C8_Witness ==
    /\ Len(log) >= 2
    /\ log[2].op = "Delete" /\ log[2].err # NoErr
    /\ Exists(blobs[log[2].arg])
    /\ Len(index) > 0

\* C9: for each (objectId, path) DeleteFile returned, RemovePath calls
\* Delete(objectId, nil) once and sends one message for the path, in the
\* returned order, OK when the delete succeeded and InternalError when it
\* failed; a failed delete does not stop the remaining ones.
C9_BestEffort ==
    Len(rp.objects) > 0 =>
        /\ Len(Deletes) = rp.i - 1
        /\ Len(out) = rp.i - 1
        /\ \A k \in 1..Len(Deletes) :
              /\ Deletes[k].arg = rp.objects[k]
              /\ Deletes[k].tag = NilTag
              /\ out[k] = PathResultMessage(rp.paths[k],
                             IF Deletes[k].err = NoErr THEN "OK" ELSE "InternalError")
        /\ rp.pc = "done" => rp.i - 1 = Len(rp.objects)
        /\ rp.pc = "loop" => rp.i <= Len(rp.objects)

\* C9 witness: two objects, the first delete failed and the second succeeded.
C9_Witness ==
    /\ rp.pc = "done"
    /\ Len(rp.objects) = 2
    /\ Len(out) = 2
    /\ out[1].Status = "InternalError"
    /\ out[2].Status = "OK"

-----------------------------------------------------------------------------
(* AzureStorage.Get (fs) *)

\* Entries the metadata cache of the model holds.
CacheSize == 2

\* MetadataCache.Add: inserts or refreshes, evicting the least recently used.
CacheAdd(c, name) ==
    LET rest == SelectSeq(c, LAMBDA n : n # name)
    IN SubSeq(<<name>> \o rest, 1, IF Len(rest) + 1 > CacheSize THEN CacheSize ELSE Len(rest) + 1)

\* What the service answers to a download that gets through.
DownloadOutcomes == {"ok", "network error", "500 Internal Server Error"}

\* How crypto.DecryptFile ends: well, before the metadata (bad header, wrong
\* key) or after the metadata callback (a chunk fails authentication).
DecryptOutcomes == {"ok", "header", "chunk"}

GetRet(status, found, tag, err, cbCalls, c) ==
    [status |-> status, found |-> found, tag |-> tag, err |-> err,
     cbCalls |-> cbCalls, cache |-> c]

\* A buggy Get: no branch for "Blob not found".
GetNoNotFound(bs, c, name, hasCb, net, dec) ==
    LET cb == IF hasCb THEN 1 ELSE 0
    IN IF name = "" THEN GetRet(0, FALSE, NilTag, "name is empty", 0, c)
       ELSE IF net = "network error"
       THEN GetRet(0, FALSE, NilTag, "network error while downloading the file", 0, c)
       ELSE IF ~Exists(bs[name])
       THEN GetRet(404, FALSE, NilTag, "Azure Storage error while downloading the file: 404", 0, c)
       ELSE IF net # "ok"
       THEN GetRet(500, FALSE, NilTag, "Azure Storage error while downloading the file: 500", 0, c)
       ELSE IF bs[name].data = {} THEN GetRet(200, FALSE, NilTag, NoErr, 0, c)
       ELSE IF dec = "header" THEN GetRet(200, TRUE, NilTag, "ErrCrypto", 0, c)
       ELSE IF dec = "chunk" THEN GetRet(200, TRUE, NilTag, "ErrCrypto", cb, c)
       ELSE GetRet(200, TRUE, bs[name].tag, NoErr, cb, CacheAdd(c, name))

\* AzureStorage.Get: download the blob, decrypt it to out (the metadata
\* callback runs once the metadata is decrypted), add the metadata to the cache.
Get(bs, c, name, hasCb, net, dec) ==
    LET cb == IF hasCb THEN 1 ELSE 0
    IN IF name = "" THEN GetRet(0, FALSE, NilTag, "name is empty", 0, c)
       ELSE IF net = "network error"
       THEN GetRet(0, FALSE, NilTag, "network error while downloading the file", 0, c)
       ELSE IF ~Exists(bs[name])
       THEN GetRet(404, FALSE, NilTag, NoErr, 0, c)
       ELSE IF net # "ok"
       THEN GetRet(500, FALSE, NilTag, "Azure Storage error while downloading the file: 500", 0, c)
       ELSE IF bs[name].data = {} THEN GetRet(200, FALSE, NilTag, NoErr, 0, c)
       ELSE IF dec = "header" THEN GetRet(200, TRUE, NilTag, "ErrCrypto", 0, c)
       ELSE IF dec = "chunk" THEN GetRet(200, TRUE, NilTag, "ErrCrypto", cb, c)
       ELSE GetRet(200, TRUE, bs[name].tag, NoErr, cb, CacheAdd(c, name))

NoGet == [done |-> FALSE, name |-> "", before |-> <<>>, status |-> 0, found |-> FALSE,
          tag |-> NilTag, err |-> NoErr, cbCalls |-> 0]

\* A caller reads a file with Get.
DoGet ==
    /\ \E name \in Names, hasCb \in BOOLEAN, net \in DownloadOutcomes, dec \in DecryptOutcomes :
          LET r == Get(blobs, cache, name, hasCb, net, dec)
          IN /\ cache' = r.cache
             /\ get' = [done |-> TRUE, name |-> name, before |-> cache, status |-> r.status,
                        found |-> r.found, tag |-> r.tag, err |-> r.err, cbCalls |-> r.cbCalls]
    /\ UNCHANGED <<keyVars, storeVars, indexVars, removeVars, moreVars>>

\* C10 as claimed: on NotFound, Get returns ErrBackendNotFound without
\* invoking the metadata callback.
C10_NotFoundIsError ==
    (get.done /\ get.status = 404) => get.err = "ErrBackendNotFound" /\ get.cbCalls = 0

\* C10 amended: on NotFound, Get returns found = false with a nil error and a
\* nil tag, without invoking the metadata callback or touching the cache.
C10_NotFoundIsNotFound ==
    (get.done /\ get.status = 404) =>
        /\ ~get.found
        /\ get.err = NoErr
        /\ get.tag = NilTag
        /\ get.cbCalls = 0
        /\ cache = get.before

\* C10 witness: a Get of a blob that is not in the container, while other
\* files are cached.
C10_Witness ==
    get.done /\ get.status = 404 /\ ~Exists(blobs[get.name]) /\ Len(cache) > 0

-----------------------------------------------------------------------------
(* AzureStorage.GetWithRange and AzureStorage.Get, step by step (fs) *)

\* The goroutines reading from the store at the same time.
Procs == {"r1", "r2"}

\* Plaintext bytes of a chunk, and the bytes its authentication tag adds.
ChunkSize == 64 * 1024
TagSize == 16

\* Length of the request for the header and the first package.
HeaderFetchLength == 64 * 1024 + 32 + 256

\* azblob.CountToEnd: a download of count 0 runs to the end of the blob.
CountToEnd == 0

\* The header length, metadata length and plaintext size of a stored file.
HeaderLength == 38
MetadataLength == 60
PlainSize == 100000

CeilDiv(n, d) == (n + d - 1) \div d

\* fsutils.RequestRange for the range [a, b) of the plaintext.
StartPackage(a) == 1 + a \div ChunkSize
SkipBeginning(a) == a % ChunkSize
StartBytes(hl, ml, a) == hl + ml + (StartPackage(a) - 1) * (ChunkSize + TagSize)
LengthBytes(hl, ml, a, b) ==
    (CeilDiv(b, ChunkSize) - (StartPackage(a) - 1)) * (ChunkSize + TagSize)

\* The ranges readers ask for: empty at 0, empty inside the second chunk,
\* two bytes across the first chunk boundary.
Ranges == {<<0, 0>>, <<70000, 70000>>, <<65535, 65537>>}

\* Bytes of a blob: an encrypted file of PlainSize bytes, or nothing.
BlobSize(blob) ==
    IF blob.data = {} THEN 0
    ELSE HeaderLength + MetadataLength + PlainSize + CeilDiv(PlainSize, ChunkSize) * TagSize

Min(x, y) == IF x < y THEN x ELSE y

\* blockBlobURL.Download: the status of the response and the bytes of its body.
Download(bs, name, start, count, net) ==
    IF net = "network error" THEN [status |-> 0, length |-> 0]
    ELSE IF ~Exists(bs[name]) THEN [status |-> 404, length |-> 0]
    ELSE IF net # "ok" THEN [status |-> 500, length |-> 0]
    ELSE LET rest == IF start < BlobSize(bs[name]) THEN BlobSize(bs[name]) - start ELSE 0
         IN [status |-> 200, length |-> IF count = CountToEnd THEN rest ELSE Min(count, rest)]

\* The error a failed download becomes ("nil" for a blob that is not found).
DownloadErr(status) ==
    CASE status = 0 -> "network error while downloading the file"
      [] status = 404 -> NoErr
      [] status = 200 -> NoErr
      [] OTHER -> "Azure Storage error while downloading the file: 500"

\* MetadataCache.Get: the entry, or a zero record on a miss; a hit makes the
\* entry the most recently used.
CacheHas(c, name) == \E n \in 1..Len(c) : c[n] = name
CacheGet(c, name) ==
    [hit |-> CacheHas(c, name), cache |-> IF CacheHas(c, name) THEN CacheAdd(c, name) ELSE c]

\* What a reader did, in order: calls on the mutex, the cache, the backend,
\* the codec and the callback.
Ev(e, ctx, start, count, length) ==
    [e |-> e, ctx |-> ctx, start |-> start, count |-> count, length |-> length]
Mark(e) == Ev(e, "", 0, 0, 0)

NewReader == [pc |-> "idle", op |-> "", name |-> "", a |-> 0, b |-> 0, hasCb |-> FALSE,
              ev |-> <<>>, hit |-> FALSE, seen |-> <<>>, found |-> FALSE,
              tag |-> NilTag, err |-> NoErr, written |-> 0]

OtherIdle == <<keyVars, nextTag, call, indexVars, removeVars, get, pipeVars, urlVars, fileVars, lateVars>>

\* A buggy start of GetWithRange: the mutex is not taken.
GR_LockNoMutex(p) ==
    /\ rd[p].pc = "idle"
    /\ \E name \in Names, rng \in Ranges, hasCb \in BOOLEAN :
          rd' = [rd EXCEPT ![p] = [@ EXCEPT !.pc = "lookup", !.op = "GetWithRange",
                                            !.name = name, !.a = rng[1], !.b = rng[2],
                                            !.hasCb = hasCb, !.ev = <<Mark("Lock")>>]]
    /\ mux' = mux
    /\ UNCHANGED <<OtherIdle, blobs, cache>>

\* GetWithRange: take the mutex (server.go:520).
GR_Lock(p) ==
    /\ rd[p].pc = "idle"
    /\ mux = "free"
    /\ \E name \in Names, rng \in Ranges, hasCb \in BOOLEAN :
          rd' = [rd EXCEPT ![p] = [@ EXCEPT !.pc = "lookup", !.op = "GetWithRange",
                                            !.name = name, !.a = rng[1], !.b = rng[2],
                                            !.hasCb = hasCb, !.ev = <<Mark("Lock")>>]]
    /\ mux' = p
    /\ UNCHANGED <<OtherIdle, blobs, cache>>

\* A buggy lookup: the cache is never consulted, every read is a miss.
GR_LookupMiss(p) ==
    /\ rd[p].pc = "lookup"
    /\ cache' = cache
    /\ rd' = [rd EXCEPT ![p] = [@ EXCEPT !.pc = "header", !.hit = FALSE, !.seen = cache,
                                        !.ev = Append(@, Mark("cache.Get"))]]
    /\ UNCHANGED <<OtherIdle, blobs, mux>>

\* GetWithRange: look up the file's metadata in the cache (server.go:521-522).
GR_Lookup(p) ==
    /\ rd[p].pc = "lookup"
    /\ LET g == CacheGet(cache, rd[p].name)
       IN /\ cache' = g.cache
          /\ rd' = [rd EXCEPT ![p] = [@ EXCEPT !.pc = IF g.hit THEN "unlock" ELSE "header",
                                               !.hit = g.hit, !.seen = g.cache,
                                               !.ev = Append(@, Mark("cache.Get"))]]
    /\ UNCHANGED <<OtherIdle, blobs, mux>>

\* GetWithRange on a miss: request the header and the first package, holding
\* the mutex (server.go:523-555).
GR_Header(p) ==
    /\ rd[p].pc = "header"
    /\ \E net \in DownloadOutcomes :
          LET d == Download(blobs, rd[p].name, 0, HeaderFetchLength, net)
              req == Ev("Download", "innerCtx", 0, HeaderFetchLength, d.length)
              failed == d.status # 200 \/ d.length = 0
          IN /\ rd' = [rd EXCEPT ![p] =
                         IF failed
                         THEN [@ EXCEPT !.pc = "done", !.found = FALSE,
                                        !.err = DownloadErr(d.status),
                                        !.ev = @ \o <<req, Mark("Unlock"), Mark("cancel")>>]
                         ELSE [@ EXCEPT !.pc = "parse", !.ev = Append(@, req)]]
             /\ mux' = IF failed THEN "free" ELSE mux
    /\ UNCHANGED <<OtherIdle, blobs, cache>>

\* A buggy decryption step: the error return forgets to release the mutex.
GR_ParseNoUnlock(p) ==
    /\ rd[p].pc = "parse"
    /\ \E dec \in {"ok", "header"} :
          /\ rd' = [rd EXCEPT ![p] =
                      IF dec = "header"
                      THEN [@ EXCEPT !.pc = "done", !.err = "ErrCrypto",
                                     !.ev = @ \o <<Mark("DecryptFile"), Mark("cancel")>>]
                      ELSE [@ EXCEPT !.pc = "add",
                                     !.ev = @ \o <<Mark("DecryptFile"), Mark("cancel")>>]]
          /\ mux' = mux
    /\ UNCHANGED <<OtherIdle, blobs, cache>>

\* GetWithRange on a miss: decrypt the header and the metadata; the callback
\* cancels the request (server.go:557-568).
GR_Parse(p) ==
    /\ rd[p].pc = "parse"
    /\ \E dec \in {"ok", "header"} :
          /\ rd' = [rd EXCEPT ![p] =
                      IF dec = "header"
                      THEN [@ EXCEPT !.pc = "done", !.err = "ErrCrypto",
                                     !.ev = @ \o <<Mark("DecryptFile"), Mark("Unlock"),
                                                   Mark("cancel")>>]
                      ELSE [@ EXCEPT !.pc = "add",
                                     !.ev = @ \o <<Mark("DecryptFile"), Mark("cancel")>>]]
          /\ mux' = IF dec = "header" THEN "free" ELSE mux
    /\ UNCHANGED <<OtherIdle, blobs, cache>>

\* GetWithRange on a miss: store the metadata in the cache (server.go:570-571).
GR_Add(p) ==
    /\ rd[p].pc = "add"
    /\ cache' = CacheAdd(cache, rd[p].name)
    /\ rd' = [rd EXCEPT ![p] = [@ EXCEPT !.pc = "unlock", !.ev = Append(@, Mark("cache.Add"))]]
    /\ UNCHANGED <<OtherIdle, blobs, mux>>

\* GetWithRange: release the mutex (server.go:573).
GR_Unlock(p) ==
    /\ rd[p].pc = "unlock"
    /\ mux' = "free"
    /\ rd' = [rd EXCEPT ![p] = [@ EXCEPT !.pc = "range", !.ev = Append(@, Mark("Unlock"))]]
    /\ UNCHANGED <<OtherIdle, blobs, cache>>

\* GetWithRange: send the metadata to the callback, request the range and
\* decrypt it to out (server.go:575-624).
GR_Range(p) ==
    /\ rd[p].pc = "range"
    /\ \E net \in DownloadOutcomes, dec \in {"ok", "chunk"} :
          LET start == StartBytes(HeaderLength, MetadataLength, rd[p].a)
              count == LengthBytes(HeaderLength, MetadataLength, rd[p].a, rd[p].b)
              d == Download(blobs, rd[p].name, start, count, net)
              cb == IF rd[p].hasCb THEN <<Mark("metadataCb")>> ELSE <<>>
              req == Ev("Download", "ctx", start, count, d.length)
          IN rd' = [rd EXCEPT ![p] =
                      IF d.status # 200
                      THEN [@ EXCEPT !.pc = "done", !.found = FALSE,
                                     !.err = DownloadErr(d.status),
                                     !.ev = @ \o cb \o <<req>>]
                      ELSE IF d.length = 0
                      THEN [@ EXCEPT !.pc = "done", !.found = FALSE,
                                     !.ev = @ \o cb \o <<req>>]
                      ELSE IF dec = "chunk"
                      THEN [@ EXCEPT !.pc = "done", !.found = TRUE, !.err = "ErrCrypto",
                                     !.ev = @ \o cb \o <<req, Mark("DecryptPackages")>>]
                      ELSE [@ EXCEPT !.pc = "done", !.found = TRUE,
                                     !.tag = blobs[rd[p].name].tag,
                                     !.written = rd[p].b - rd[p].a,
                                     !.ev = @ \o cb \o <<req, Mark("DecryptPackages")>>]]
    /\ UNCHANGED <<OtherIdle, blobs, cache, mux>>

\* Get: download and decrypt the file (server.go:443-494).
G_Download(p) ==
    /\ rd[p].pc = "idle"
    /\ \E name \in Names, net \in DownloadOutcomes, dec \in DecryptOutcomes :
          LET r == Get(blobs, cache, name, TRUE, net, dec)
              d == Download(blobs, name, 0, CountToEnd, net)
          IN rd' = [rd EXCEPT ![p] =
                      [@ EXCEPT !.pc = IF r.found /\ r.err = NoErr THEN "glock" ELSE "done",
                                !.op = "Get", !.name = name, !.hasCb = TRUE,
                                !.found = r.found, !.err = r.err,
                                !.ev = <<Ev("Download", "ctx", 0, CountToEnd, d.length)>>
                                       \o (IF d.status = 200 /\ d.length > 0
                                           THEN <<Mark("DecryptFile")>> ELSE <<>>)]]
    /\ UNCHANGED <<OtherIdle, blobs, cache, mux>>

\* Get: take the mutex (server.go:498).
G_Lock(p) ==
    /\ rd[p].pc = "glock"
    /\ mux = "free"
    /\ mux' = p
    /\ rd' = [rd EXCEPT ![p] = [@ EXCEPT !.pc = "gadd", !.ev = Append(@, Mark("Lock"))]]
    /\ UNCHANGED <<OtherIdle, blobs, cache>>

\* Get: store the metadata in the cache (server.go:499).
G_Add(p) ==
    /\ rd[p].pc = "gadd"
    /\ cache' = CacheAdd(cache, rd[p].name)
    /\ rd' = [rd EXCEPT ![p] = [@ EXCEPT !.pc = "gunlock", !.ev = Append(@, Mark("cache.Add"))]]
    /\ UNCHANGED <<OtherIdle, blobs, mux>>

\* Get: release the mutex and return the ETag (server.go:500-506).
G_Unlock(p) ==
    /\ rd[p].pc = "gunlock"
    /\ mux' = "free"
    /\ rd' = [rd EXCEPT ![p] = [@ EXCEPT !.pc = "done", !.tag = blobs[rd[p].name].tag,
                                        !.ev = Append(@, Mark("Unlock"))]]
    /\ UNCHANGED <<OtherIdle, blobs, cache>>

Downloads(ev) == SelectSeq(ev, LAMBDA e : e.e = "Download")

\* Position of the first event of a kind (and context) in a reader's events.
PosOf(ev, e, ctx) ==
    IF \E n \in 1..Len(ev) : ev[n].e = e /\ ev[n].ctx = ctx
    THEN CHOOSE n \in 1..Len(ev) :
            /\ ev[n].e = e /\ ev[n].ctx = ctx
            /\ \A m \in 1..(n - 1) : ~(ev[m].e = e /\ ev[m].ctx = ctx)
    ELSE 0

IsHeaderFetch(e) ==
    e.e = "Download" /\ e.ctx = "innerCtx" /\ e.start = 0
    /\ e.count > 0 /\ e.count <= 64 * 1024 + 288
IsRangeFetch(e) == e.e = "Download" /\ e.ctx = "ctx"

GWRDone(p) == rd[p].op = "GetWithRange" /\ rd[p].pc = "done"

\* C11: a GetWithRange that missed the cache makes one header fetch, from
\* offset 0 and of at most 64 KiB + 288 bytes, and makes its range download
\* only after it parsed the header, added it to the cache and cancelled the
\* fetch; one that hit the cache makes the range download alone; the lookup
\* hits exactly when the cache holds the object.
C11_RangedReadProtocol ==
    /\ [](\A p \in Procs : GWRDone(p) =>
            LET ev == rd[p].ev
                dl == Downloads(ev)
                hdr == PosOf(ev, "Download", "innerCtx")
                rng == PosOf(ev, "Download", "ctx")
            IN IF rd[p].hit
               THEN Len(dl) = 1 /\ IsRangeFetch(dl[1])
               ELSE /\ Len(dl) \in {1, 2}
                    /\ IsHeaderFetch(dl[1])
                    /\ Len(dl) = 2 =>
                         /\ IsRangeFetch(dl[2])
                         /\ hdr < PosOf(ev, "DecryptFile", "")
                         /\ PosOf(ev, "DecryptFile", "") < PosOf(ev, "cache.Add", "")
                         /\ PosOf(ev, "cache.Add", "") < rng
                         /\ hdr < PosOf(ev, "cancel", "")
                         /\ PosOf(ev, "cancel", "") < rng)
    /\ [][\A p \in Procs :
            (rd[p].pc = "lookup" /\ rd'[p].pc # "lookup") =>
                rd'[p].hit = CacheHas(cache, rd[p].name)]_vars

\* C11 witness: one reader missed, fetched the header and then the range;
\* the other then read the same object with a cache hit and one download.
C11_Witness ==
    /\ GWRDone("r1") /\ ~rd["r1"].hit /\ Len(Downloads(rd["r1"].ev)) = 2 /\ rd["r1"].found
    /\ GWRDone("r2") /\ rd["r2"].hit /\ rd["r2"].name = rd["r1"].name /\ rd["r2"].found
    /\ Len(Downloads(rd["r2"].ev)) = 1

\* C12: a GetWithRange of an empty range (a = b) that returns without error
\* has written no plaintext and has fetched no byte of a data chunk: it made
\* no range download whose response has a body.
C12_EmptyRangeNoFetch ==
    \A p \in Procs :
        (GWRDone(p) /\ rd[p].a = rd[p].b /\ rd[p].err = NoErr) =>
            /\ rd[p].written = 0
            /\ \A n \in 1..Len(rd[p].ev) :
                  IsRangeFetch(rd[p].ev[n]) => rd[p].ev[n].length = 0

\* Positions at which a reader is between f.mux.Lock and f.mux.Unlock.
InCritical(p) == rd[p].pc \in {"lookup", "header", "parse", "add", "unlock", "gadd", "gunlock"}

\* C13: a reader that is about to look up the cache, or to add to it, holds
\* the mutex; the cache changes only in a step of the reader holding the
\* mutex; and when GetWithRange adds after a miss the cache is still as its
\* lookup left it.
C13_CacheUnderMutex ==
    /\ [](\A p \in Procs : InCritical(p) => mux = p)
    /\ [](\A p \in Procs : rd[p].pc = "add" => cache = rd[p].seen)
    /\ [][cache' # cache => \E p \in Procs : mux = p /\ rd'[p] # rd[p]]_vars

\* C13 witness: a GetWithRange that missed is about to add to the cache
\* while a Get that has decrypted another file waits for the mutex to add.
C13_Witness ==
    /\ rd["r1"].pc = "add" /\ mux = "r1"
    /\ rd["r2"].pc = "glock" /\ rd["r2"].name # rd["r1"].name

-----------------------------------------------------------------------------
(* AzureStorage.Set: the encrypting goroutine, the pipe and the upload (fs) *)

\* Largest number of data chunks of a file the model draws.
MaxChunks == 3

\* Chunks that fit in one buffer of the upload (BufferSize, scaled down).
BufferChunks == 2

\* MaxBuffers of azblob.UploadStreamToBlockBlobOptions.
MaxBuffers == 2

\* What crypto.EncryptFile writes to the pipe for a file of n chunks: the
\* header and metadata (piece 0), then the chunks in nonce order.
Pieces(n) == [i \in 1..(n + 1) |-> i - 1]

Flatten(blocks) ==
    LET F[k \in 0..Len(blocks)] == IF k = 0 THEN <<>> ELSE F[k - 1] \o blocks[k]
    IN F[Len(blocks)]

\* The buffers the upload staged, as blocks in the order of their ids.
BlockList(staged) ==
    LET ids == {b.id : b \in staged}
    IN [k \in 1..Cardinality(ids) |-> (CHOOSE b \in staged : b.id = k).chunks]

NewSet(n, present) ==
    [n |-> n, present |-> present,
     next |-> 0, ppc |-> "run", innerErr |-> NoErr,
     pipe |-> <<>>, closed |-> FALSE,
     upc |-> "read", recv |-> <<>>, cur |-> <<>>, bufs |-> <<>>, blocks |-> 0,
     staged |-> {}, content |-> Nil, uploadErr |-> NoErr,
     ret |-> [done |-> FALSE, err |-> NoErr, tagOut |-> NilTag]]

PipeIdle == <<keyVars, storeVars, indexVars, removeVars, getVars, rangeVars, urlVars, fileVars, lateVars>>

\* A buggy pipe: Write returns before the reader has taken the piece.
P_WriteDoneEarly ==
    /\ sp.ppc = "writing"
    /\ sp' = [sp EXCEPT !.ppc = "run"]
    /\ UNCHANGED PipeIdle

\* EncryptFile hands the next piece to pw.Write (server.go:641).
P_Write ==
    /\ sp.ppc = "run"
    /\ sp.next <= sp.n
    /\ sp' = [sp EXCEPT !.ppc = "writing", !.pipe = Append(@, sp.next), !.next = @ + 1]
    /\ UNCHANGED PipeIdle

\* pw.Write returns once the reader has taken the piece (io.Pipe, server.go:636).
P_WriteDone ==
    /\ sp.ppc = "writing"
    /\ sp.pipe = <<>>
    /\ sp' = [sp EXCEPT !.ppc = "run"]
    /\ UNCHANGED PipeIdle

\* EncryptFile fails (reading in, or the context is done): innerErr is set
\* and the deferred pw.Close runs (server.go:639-641).
P_Fail ==
    /\ sp.ppc = "run"
    /\ sp' = [sp EXCEPT !.ppc = "done", !.innerErr = "ErrCrypto", !.closed = TRUE]
    /\ UNCHANGED PipeIdle

\* EncryptFile returns nil after the last piece and the deferred pw.Close runs.
P_Close ==
    /\ sp.ppc = "run"
    /\ sp.next > sp.n
    /\ sp' = [sp EXCEPT !.ppc = "done", !.closed = TRUE]
    /\ UNCHANGED PipeIdle

\* The upload reads a piece from pr into the buffer it is filling; a full
\* buffer is handed over to be staged.
U_Read ==
    /\ sp.upc = "read"
    /\ sp.pipe # <<>>
    /\ sp.cur # <<>> \/ Len(sp.bufs) < MaxBuffers
    /\ LET filled == Append(sp.cur, Head(sp.pipe))
           full == Len(filled) = BufferChunks
       IN sp' = [sp EXCEPT !.pipe = Tail(@),
                           !.recv = Append(@, Head(sp.pipe)),
                           !.cur = IF full THEN <<>> ELSE filled,
                           !.blocks = IF full THEN @ + 1 ELSE @,
                           !.bufs = IF full
                                    THEN Append(@, [id |-> sp.blocks + 1, chunks |-> filled])
                                    ELSE @]
    /\ UNCHANGED PipeIdle

\* The upload reads the end of the stream: the buffer being filled is handed over.
U_Eof ==
    /\ sp.upc = "read"
    /\ sp.pipe = <<>>
    /\ sp.closed
    /\ sp' = [sp EXCEPT !.upc = "flush",
                        !.cur = <<>>,
                        !.blocks = IF sp.cur # <<>> THEN @ + 1 ELSE @,
                        !.bufs = IF sp.cur # <<>>
                                 THEN Append(@, [id |-> sp.blocks + 1, chunks |-> sp.cur])
                                 ELSE @]
    /\ UNCHANGED PipeIdle

\* One buffer is staged as a block, in any order, and becomes free again.
U_Stage ==
    /\ sp.upc \in {"read", "flush"}
    /\ \E k \in 1..Len(sp.bufs) :
          sp' = [sp EXCEPT !.staged = @ \cup {sp.bufs[k]},
                           !.bufs = SubSeq(@, 1, k - 1) \o SubSeq(@, k + 1, Len(@))]
    /\ UNCHANGED PipeIdle

\* The block list is committed when the access conditions are met (no blob
\* of that name, for a nil tag); the upload returns (server.go:648-652).
U_Commit ==
    /\ sp.upc = "flush"
    /\ sp.bufs = <<>>
    /\ sp' = IF ConditionsMet(IF sp.present THEN [tag |-> 1, data |-> {"a"}, complete |-> TRUE]
                              ELSE NoBlob, blobAccessConditions(NilTag))
             THEN [sp EXCEPT !.upc = "committed", !.content = Flatten(BlockList(sp.staged))]
             ELSE [sp EXCEPT !.upc = "failed",
                             !.uploadErr = "Azure Storage error failed while uploading the file: 412"]
    /\ UNCHANGED PipeIdle

\* The upload fails on the network and reads no more.
U_Fail ==
    /\ sp.upc \in {"read", "flush"}
    /\ sp' = [sp EXCEPT !.upc = "failed", !.uploadErr = "network error while uploading the file"]
    /\ UNCHANGED PipeIdle

\* Set returns after the upload: innerErr if it is set by now, the error of
\* the upload otherwise, the new ETag if neither (server.go:653-668).
S_Return ==
    /\ sp.upc \in {"committed", "failed"}
    /\ ~sp.ret.done
    /\ sp' = [sp EXCEPT !.ret =
                 IF sp.innerErr # NoErr THEN [done |-> TRUE, err |-> sp.innerErr, tagOut |-> NilTag]
                 ELSE IF sp.uploadErr # NoErr
                 THEN [done |-> TRUE, err |-> sp.uploadErr, tagOut |-> NilTag]
                 ELSE [done |-> TRUE, err |-> NoErr, tagOut |-> 2]]
    /\ UNCHANGED PipeIdle

\* C14: the pieces the upload has read, followed by those in the pipe, are
\* the pieces the producer wrote, in the order it wrote them; at most 2
\* pieces are in the pipe and the upload holds at most MaxBuffers buffers;
\* a committed blob is the pieces read, in that order.
C14_PipeOrder ==
    /\ sp.recv \o sp.pipe = SubSeq(Pieces(sp.n), 1, sp.next)
    /\ Len(sp.pipe) <= 2
    /\ Len(sp.bufs) + (IF sp.cur # <<>> THEN 1 ELSE 0) <= MaxBuffers
    /\ sp.upc = "committed" =>
          /\ sp.content = sp.recv
          /\ sp.innerErr = NoErr => sp.content = Pieces(sp.n)

\* C14 witness: a file of three chunks or more is committed, complete,
\* after its blocks were staged.
C14_Witness ==
    /\ sp.upc = "committed" /\ sp.innerErr = NoErr
    /\ Len(sp.content) >= 4 /\ Cardinality(sp.staged) >= 2

-----------------------------------------------------------------------------
(* AzureStorage.blobUrl (fs) *)

\* Names are sequences of characters.  Longest generated name of the model.
MaxNameLen == 3

NameChars == {"_", "a", "3", "%"}
HexChars == {"a", "3"}

InfoName == <<"_", "i", "n", "f", "o", ".", "j", "s", "o", "n">>
IndexName == <<"_", "i", "n", "d", "e", "x">>
WellKnown == {InfoName, IndexName}

\* The names blobUrl is called with: the well-known ones, object ids, and
\* every short sequence of characters, the empty one included.
BlobNames == WellKnown \cup SeqsUpTo(NameChars, MaxNameLen)

StorageURL == <<"https://account.blob.core.windows.net/container">>
DataPaths == {<<"d", "a", "t", "a">>, <<"r">>}

\* url.Parse: fails on a "%" that two hexadecimal digits do not follow.
Parses(raw) ==
    \A i \in 1..Len(raw) :
        raw[i] = "%" => i + 2 <= Len(raw) /\ raw[i + 1] \in HexChars /\ raw[i + 2] \in HexChars

\* A blobUrl that shards the objects by the first two characters of their name.
blobUrlSharded(dataPath, name) ==
    IF name = <<>> THEN [url |-> Nil, err |-> "name is empty"]
    ELSE LET folder == IF name[1] # "_"
                       THEN dataPath \o <<"/">> \o SubSeq(name, 1, Min(2, Len(name))) \o <<"/">>
                       ELSE <<>>
             raw == StorageURL \o <<"/">> \o folder \o name
         IN IF Parses(raw) THEN [url |-> raw, err |-> NoErr]
            ELSE [url |-> Nil, err |-> "invalid URL escape"]

\* blobUrl: the URL of the blob of a name.  A name that does not start with
\* "_" lives in a sub-folder inside the data path.
blobUrl(dataPath, name) ==
    IF name = <<>> THEN [url |-> Nil, err |-> "name is empty"]
    ELSE LET folder == IF name[1] # "_" THEN dataPath \o <<"/">> ELSE <<>>
             raw == StorageURL \o <<"/">> \o folder \o name
         IN IF Parses(raw) THEN [url |-> raw, err |-> NoErr]
            ELSE [url |-> Nil, err |-> "invalid URL escape"]

NoUrl == [done |-> FALSE, dataPath |-> <<>>, name |-> <<>>, url |-> Nil, err |-> NoErr]

UrlIdle == <<keyVars, storeVars, indexVars, removeVars, getVars, rangeVars, pipeVars, fileVars, lateVars>>

\* A backend operation asks for the URL of a blob.
DoBlobUrl ==
    /\ \E dataPath \in DataPaths, name \in BlobNames :
          LET r == blobUrl(dataPath, name)
          IN bu' = [done |-> TRUE, dataPath |-> dataPath, name |-> name,
                    url |-> r.url, err |-> r.err]
    /\ UNCHANGED UrlIdle

\* Names that stand for object ids: no "_" and nothing to escape.
IsObjectId(name) == Len(name) >= 2 /\ \A i \in 1..Len(name) : name[i] \in HexChars

\* C15 as claimed: the well-known blobs are at the root, every object id is
\* under <dataPath>/<first 2 characters>/<objectId>.
C15_ShardedLayout ==
    (bu.done /\ bu.err = NoErr) =>
        /\ bu.name \in WellKnown => bu.url = StorageURL \o <<"/">> \o bu.name
        /\ IsObjectId(bu.name) =>
              bu.url = StorageURL \o <<"/">> \o bu.dataPath \o <<"/">>
                       \o SubSeq(bu.name, 1, 2) \o <<"/">> \o bu.name

\* C15 amended: a name that starts with "_" (the well-known blobs) is at the
\* root, every other name is directly under <dataPath>/.
C15_FlatLayout ==
    (bu.done /\ bu.err = NoErr) =>
        /\ bu.name[1] = "_" => bu.url = StorageURL \o <<"/">> \o bu.name
        /\ bu.name[1] # "_" =>
              bu.url = StorageURL \o <<"/">> \o bu.dataPath \o <<"/">> \o bu.name

\* C15 witness: the URL of an object id has been built.
C15_Witness ==
    /\ bu.done /\ bu.err = NoErr /\ IsObjectId(bu.name)
    /\ bu.url = StorageURL \o <<"/">> \o bu.dataPath \o <<"/">> \o bu.name

-----------------------------------------------------------------------------
(* Server.FileHandler (server) *)

\* The forms of a fileId uuid.FromString parses, and the ones it does not.
ParsedForms == {"canonical", "hash", "braced", "urn"}
BadId == [form |-> "garbage", version |-> 0, obj |-> ""]
EmptyId == [form |-> "empty", version |-> 0, obj |-> ""]
UUIDVersions == {1, 4, 5}
FileIds ==
    {EmptyId, BadId}
    \cup [form : ParsedForms, version : UUIDVersions, obj : {"o1", "o2"}]

\* A buggy uuid.FromString: every fileId parses, as a version 4 UUID.
FromStringLenient(id) == [err |-> NoErr, version |-> 4]

\* uuid.FromString
FromString(id) ==
    IF id.form \in ParsedForms THEN [err |-> NoErr, version |-> id.version]
    ELSE [err |-> "uuid: incorrect UUID format", version |-> 0]

\* The metadata of a stored file, as the callback gets it.
FileNames == {<<>>, <<"a", ".", "t">>, <<"a", "\"", "b">>}
Headers == [ContentType : {"", "text/plain"}, Size : {0, 5}, Name : FileNames]

\* strconv.FormatInt(i, 10)
FormatInt(i) == ToString(i)

\* strings.ReplaceAll(s, old, ""), for a one-character old.
ReplaceAll(s, old) == SelectSeq(s, LAMBDA ch : ch # old)

\* The headers of a response; "" and <<>> stand for a header that is not set.
NoHeaders == [ContentType |-> "", ContentLength |-> "", ContentDisposition |-> <<>>]

\* A buggy callback: no Content-Type when the metadata has none.
SendHeadersNoFallback(header) ==
    [ContentType |-> header.ContentType,
     ContentLength |-> IF header.Size > 0 THEN FormatInt(header.Size) ELSE "",
     ContentDisposition |->
        <<"inline">> \o (IF header.Name # <<>>
                         THEN <<"; filename=\"">> \o ReplaceAll(header.Name, "\"") \o <<"\"">>
                         ELSE <<>>)]

\* The metadata callback of FileHandler: send headers before the data is sent.
SendHeaders(header) ==
    [ContentType |-> IF header.ContentType # "" THEN header.ContentType
                     ELSE "application/octet-stream",
     ContentLength |-> IF header.Size > 0 THEN FormatInt(header.Size) ELSE "",
     ContentDisposition |->
        <<"inline">> \o (IF header.Name # <<>>
                         THEN <<"; filename=\"">> \o ReplaceAll(header.Name, "\"") \o <<"\"">>
                         ELSE <<>>)]

\* The response of a request: what the client gets, what the handler did in
\* order, and what Store.Get returned if it was called.
Response(status, hdrs, events, getCalls, found, err) ==
    [status |-> status, hdrs |-> hdrs, events |-> events, getCalls |-> getCalls,
     found |-> found, err |-> err]

\* c.AbortWithError: the status is written unless the response has started;
\* c.Error panics on a nil error, which gin's recovery catches.
AbortWithError(written, code, err) ==
    <<"AbortWithError">> \o (IF written THEN <<>> ELSE <<"WriteHeader">>)
    \o (IF err = NoErr THEN <<"panic">> ELSE <<>>)

\* The blob Store.Get reads: the object of a fileId in canonical form; the
\* other forms are names no object has.
StoreOf(bs, id) == IF id.form = "canonical" THEN bs ELSE [n \in Names |-> NoBlob]

\* FileHandler: GET /file/:fileId.  wrote says whether a decryption that
\* fails at a chunk had written plaintext before.
FileHandler(bs, c, id, header, net, dec, wrote) ==
    LET u == FromString(id)
        r == Get(StoreOf(bs, id), c, id.obj, TRUE, net, dec)
        called == r.cbCalls > 0
        hdrs == IF called THEN SendHeaders(header) ELSE NoHeaders
        written == called /\ header.Size > 0 /\ (dec = "ok" \/ wrote)
        events == <<"Store.Get">>
                  \o (IF called THEN <<"Header", "Header", "Header">> ELSE <<>>)
                  \o (IF written THEN <<"WriteHeader", "Write">> ELSE <<>>)
        code == IF ~r.found THEN 404 ELSE IF r.err # NoErr THEN 500 ELSE 200
    IN IF id.form = "empty"
       THEN [resp |-> Response(400, NoHeaders, AbortWithError(FALSE, 400, "empty fileId"),
                               0, FALSE, NoErr),
             cache |-> c]
       ELSE IF u.err # NoErr \/ u.version # 4
       THEN [resp |-> Response(400, NoHeaders, AbortWithError(FALSE, 400, u.err),
                               0, FALSE, NoErr),
             cache |-> c]
       ELSE [resp |-> Response(IF written THEN 200 ELSE code, hdrs,
                               events \o (IF code # 200
                                          THEN AbortWithError(written, code,
                                                   IF ~r.found THEN "file does not exist"
                                                   ELSE r.err)
                                          ELSE IF written THEN <<>> ELSE <<"WriteHeader">>),
                               1, r.found, r.err),
             cache |-> r.cache]

NoRequest == [done |-> FALSE, id |-> EmptyId,
              header |-> [ContentType |-> "", Size |-> 0, Name |-> <<>>],
              resp |-> Response(0, NoHeaders, <<>>, 0, FALSE, NoErr)]

FileIdle == <<keyVars, storeVars, indexVars, removeVars, get, rangeVars, pipeVars, urlVars, lateVars>>

\* The server handles a request for a file.
DoFileHandler ==
    /\ ~fh.done
    /\ \E id \in FileIds, header \in Headers, net \in DownloadOutcomes,
          dec \in DecryptOutcomes, wrote \in BOOLEAN :
          LET h == FileHandler(blobs, cache, id, header, net, dec, wrote)
          IN /\ fh' = [done |-> TRUE, id |-> id, header |-> header, resp |-> h.resp]
             /\ cache' = h.cache
    /\ UNCHANGED FileIdle

\* A request that Store.Get served without error.
Served == fh.done /\ fh.resp.getCalls = 1 /\ fh.resp.found /\ fh.resp.err = NoErr

\* Every header is set before the first byte of the body is written.
HeadersBeforeWrite(events) ==
    /\ Len(SelectSeq(events, LAMBDA e : e = "Header")) = 3
    /\ \A i, j \in 1..Len(events) : (events[i] = "Header" /\ events[j] = "Write") => i < j

\* Content-Type and Content-Disposition as the metadata gives them.
TypeAndDisposition ==
    /\ fh.resp.hdrs.ContentType =
          (IF fh.header.ContentType # "" THEN fh.header.ContentType
           ELSE "application/octet-stream")
    /\ LET cd == fh.resp.hdrs.ContentDisposition
       IN /\ Len(cd) >= 1 /\ cd[1] = "inline"
          /\ fh.header.Name = <<>> => cd = <<"inline">>
          /\ fh.header.Name # <<>> =>
                /\ cd[2] = "; filename=\"" /\ cd[Len(cd)] = "\""
                /\ SubSeq(cd, 3, Len(cd) - 1) = ReplaceAll(fh.header.Name, "\"")

\* C16 as claimed: every served response has Content-Type, Content-Length
\* and Content-Disposition from the metadata, set before the body.
C16_HeadersFromMetadata ==
    Served =>
        /\ fh.resp.status = 200
        /\ TypeAndDisposition
        /\ fh.resp.hdrs.ContentLength = FormatInt(fh.header.Size)
        /\ HeadersBeforeWrite(fh.resp.events)

\* C16 amended: Content-Length is set when the size of the metadata is
\* positive and left out otherwise; the rest as claimed.
C16_HeadersWhenKnown ==
    Served =>
        /\ fh.resp.status = 200
        /\ TypeAndDisposition
        /\ fh.resp.hdrs.ContentLength =
              (IF fh.header.Size > 0 THEN FormatInt(fh.header.Size) ELSE "")
        /\ HeadersBeforeWrite(fh.resp.events)

\* C16 witness: a file without a content type, with a quote in its name, is
\* served and its body written.
C16_Witness ==
    /\ Served /\ fh.header.ContentType = "" /\ fh.header.Size > 0
    /\ fh.header.Name = <<"a", "\"", "b">>
    /\ \E n \in 1..Len(fh.resp.events) : fh.resp.events[n] = "Write"

\* C19: when Store.Get returns an error the status is 500, and the status
\* is 404 only when Store.Get found no object and returned no error.
C19_ErrorsNotMasked ==
    (fh.done /\ fh.resp.getCalls = 1) =>
        /\ fh.resp.err # NoErr => fh.resp.status = 500
        /\ fh.resp.status = 404 => ~fh.resp.found /\ fh.resp.err = NoErr

\* A fileId FileHandler must reject.
InvalidId(id) == id.form = "empty" \/ id.form \notin ParsedForms \/ id.version # 4

\* C20: a request with an empty fileId, one that is no UUID, or a UUID of
\* another version than 4 gets status 400 and Store.Get is not called.
C20_InvalidIdRejected ==
    (fh.done /\ InvalidId(fh.id)) =>
        /\ fh.resp.status = 400
        /\ fh.resp.getCalls = 0
        /\ \A n \in 1..Len(fh.resp.events) : fh.resp.events[n] # "Store.Get"

\* C20 witness: a well-formed UUID of version 1 was rejected.
C20_Witness ==
    /\ fh.done /\ fh.id.form = "canonical" /\ fh.id.version = 1
    /\ fh.resp.status = 400 /\ fh.resp.getCalls = 0

-----------------------------------------------------------------------------
(* Frame of the upgrade, and RemovePath with nothing to delete *)

\* C17: a successful upgrade of a version 1 file with both legacy fields
\* keeps every slot it had, in order, and appends one passphrase slot: a
\* salt from NewSalt, the confirmation hash the passphrase gives with that
\* salt, and the legacy master key wrapped with the key the passphrase gives
\* with that salt; a file that had no slot ends with that one slot.
C17_UpgradeAppendsOneSlot ==
    (up.done /\ up.err = NoErr /\ up.old.Version = 1 /\ HasLegacy(up.old)) =>
        LET n == Len(up.old.Keys)
            k == info.Keys[n + 1]
            nkd == KeyFromPassphrase(typed, k.Salt)
            kd == KeyFromPassphrase(typed, up.old.Salt)
        IN /\ Len(info.Keys) = n + 1
           /\ SubSeq(info.Keys, 1, n) = up.old.Keys
           /\ k.GPGKey = ""
           /\ k.Salt \in GoodSalts
           /\ nkd.err = NoErr /\ kd.err = NoErr
           /\ k.ConfirmationHash = nkd.confirmationHash
           /\ k.MasterKey = WrapKey(nkd.key, kd.key)
           /\ UnwrapKey(nkd.key, k.MasterKey).key = kd.key
           /\ n = 0 => Len(info.Keys) = 1

\* C17 witness: a version 1 file with legacy fields and no slot was
\* upgraded and has one passphrase slot.
C17_Witness ==
    /\ up.done /\ up.err = NoErr /\ up.old.Version = 1 /\ HasLegacy(up.old)
    /\ Len(up.old.Keys) = 0
    /\ Len(info.Keys) = 1 /\ info.Keys[1].GPGKey = ""

\* C18: when Index.DeleteFile fails or returns no objects, RemovePath sends
\* one message for the requested path, InternalError or NotFound, and calls
\* no backend Delete.
C18_NothingToDelete ==
    (rp.pc = "done" /\ Len(rp.objects) = 0) =>
        /\ Len(log) = 1 /\ log[1].op = "DeleteFile" /\ log[1].arg = rp.path
        /\ Deletes = <<>>
        /\ out = <<PathResultMessage(rp.path,
                      IF log[1].err # NoErr THEN "InternalError" ELSE "NotFound")>>

\* C18 witness: the path names nothing in an index that has entries, and
\* NotFound was sent.
C18_Witness ==
    /\ rp.pc = "done" /\ Len(rp.objects) = 0
    /\ Len(log) = 1 /\ log[1].err = NoErr
    /\ Len(index) > 0
    /\ Len(out) = 1 /\ out[1].Status = "NotFound"

-----------------------------------------------------------------------------
(* Conditional delete *)

\* A caller deletes a blob with Delete, with or without a tag.
DoDelete ==
    /\ \E name \in Names, tag \in KnownTags, net \in NetOutcomes :
          LET r == Delete(blobs, name, tag, net)
          IN /\ blobs' = r.blobs
             /\ call' = [op |-> "Delete", name |-> name, tag |-> tag,
                         pre |-> blobs[name], tagOut |-> NilTag, err |-> r.err]
    /\ UNCHANGED <<nextTag, keyVars, indexVars, removeVars, getVars, moreVars>>

\* C21: Delete without a tag is unconditional: it removes an existing blob
\* whatever its version whenever the request gets through. Delete with a tag
\* succeeds only if the blob still has that version tag. A Delete that fails
\* leaves the blob in place.
C21_ConditionalDelete ==
    call.op = "Delete" =>
        /\ (call.tag = NilTag /\ Exists(call.pre) /\ call.err # "network error")
              => call.err = NoErr
        /\ (call.tag # NilTag /\ call.err = NoErr)
              => Exists(call.pre) /\ call.pre.tag = call.tag
        /\ call.err = NoErr => ~Exists(blobs[call.name])
        /\ call.err # NoErr => blobs[call.name] = call.pre

\* C21 witness: a Delete with a stale tag was refused and the blob stayed, or
\* a Delete without a tag removed a blob that had been rewritten.
C21_Witness ==
    /\ call.op = "Delete"
    /\ \/ /\ call.tag # NilTag /\ Exists(call.pre) /\ call.pre.tag # call.tag
          /\ call.err # NoErr /\ call.err # "network error"
          /\ blobs[call.name] = call.pre
       \/ /\ call.tag = NilTag /\ call.pre.tag > 1 /\ call.err = NoErr
          /\ ~Exists(blobs[call.name])

-----------------------------------------------------------------------------
(* A failed upgrade *)

\* C22: when UpgradeInfoFile returns an error, the info file is exactly as
\* before the call: same version, same key slots, same legacy salt and
\* confirmation hash. A file that is not version 1 or 2 (a version 3 file in
\* particular) is rejected with an error.
C22_FailedUpgradeNoChange ==
    up.done =>
        /\ up.err # NoErr =>
              /\ info.Version = up.old.Version
              /\ info.Keys = up.old.Keys
              /\ info.Salt = up.old.Salt
              /\ info.ConfirmationHash = up.old.ConfirmationHash
        /\ up.old.Version \notin {1, 2} => up.err # NoErr

\* C22 witness: the upgrade of a version 1 file failed on a passphrase that
\* does not match the legacy confirmation hash, or the prompt failed, or a
\* version 3 file was rejected.
C22_Witness ==
    /\ up.done /\ up.err # NoErr /\ info = up.old
    /\ \/ /\ up.old.Version = 1 /\ HasLegacy(up.old) /\ Len(up.old.Keys) > 0
          /\ typed \in Passphrases
          /\ up.errMessage = "Cannot unlock the repository"
       \/ up.old.Version = 3

-----------------------------------------------------------------------------
(* NewInfoFile and AddKey (cmd) *)

\* What can fail while a new info file gets its key.
NewFaults == {"none", "new", "key", "salt", "wrap", "add", "gpg"}

\* The master keys crypto.NewKey can generate.
NewKeys == {MK1, MK2}

\* infofile.New: an empty info file of the latest version.
NewInfo == InfoFile(3, <<>>, Nil, Nil)

\* InfoFile.AddGPGWrappedKey: appends a GPG slot to Keys.
AddGPGWrappedKey(inf, gpgKey, wrappedKey) ==
    [inf EXCEPT !.Keys = Append(@, GPGSlot(gpgKey, wrappedKey))]

\* AddKey adds a key to an info file; without a GPG key it prompts for a
\* passphrase.
AddKey(inf, masterKey, gpgKey, ty, newSalt, fault) ==
    LET pr == PromptPassphrase(ty)
        kd == KeyFromPassphrase(pr.key, newSalt)
    IN IF gpgKey = ""
       THEN IF pr.err # NoErr THEN UpRet(inf, "Error getting passphrase", pr.err)
            ELSE IF fault = "salt" THEN UpRet(inf, "Error generating a new salt", "ErrCrypto")
            ELSE IF kd.err # NoErr THEN UpRet(inf, "Error deriving the wrapping key", kd.err)
            ELSE IF fault = "wrap" THEN UpRet(inf, "Error wrapping the master key", "ErrCrypto")
            ELSE IF fault = "add" THEN UpRet(inf, "Error adding the key", "invalid key")
            ELSE UpRet(AddPassphrase(inf, newSalt, kd.confirmationHash,
                                     WrapKey(kd.key, masterKey)), "", NoErr)
       ELSE IF fault = "gpg"
            THEN UpRet(inf, "Error encrypting the master key with GPG", "gpg: encryption failed")
            ELSE IF fault = "add" THEN UpRet(inf, "Error adding the key", "invalid key")
            ELSE UpRet(AddGPGWrappedKey(inf, gpgKey, GPGEncrypt(masterKey, gpgKey)), "", NoErr)

\* What NewInfoFile returns: info is a pointer, nil when isNil.
NewRet(isNil, inf, errMessage, err) ==
    [isNil |-> isNil, info |-> inf, errMessage |-> errMessage, err |-> err]

\* NewInfoFile generates a new info file with a brand-new master key, wrapped
\* with a passphrase-derived key or with GPG. After AddKey it returns
\* info, "", nil whatever AddKey returned, with info set to nil when it failed.
NewInfoFile(gpgKey, masterKey, ty, newSalt, fault) ==
    LET added == AddKey(NewInfo, masterKey, gpgKey, ty, newSalt, fault)
    IN IF fault = "new" THEN NewRet(TRUE, NewInfo, "Error creating info file", "ErrNew")
       ELSE IF fault = "key" THEN NewRet(TRUE, NewInfo, "Error generating the master key", "ErrCrypto")
       ELSE IF added.err # NoErr
       THEN NewRet(TRUE, NewInfo, "", NoErr)
       ELSE NewRet(FALSE, added.info, "", NoErr)

NoNew == [done |-> FALSE, gpgKey |-> "", masterKey |-> Nil,
          addMessage |-> "", addErr |-> NoErr,
          ret |-> NewRet(TRUE, NewInfo, "", NoErr)]

\* prvt repo init asks for a new info file.
DoNewInfoFile ==
    /\ ~nf.done
    /\ \E gpgKey \in {""} \cup GPGIds, masterKey \in NewKeys,
          newSalt \in GoodSalts, fault \in NewFaults :
          LET added == IF fault \in {"new", "key"} THEN UpRet(NewInfo, "", NoErr)
                       ELSE AddKey(NewInfo, masterKey, gpgKey, typed, newSalt, fault)
          IN nf' = [done |-> TRUE, gpgKey |-> gpgKey, masterKey |-> masterKey,
                    addMessage |-> added.errMessage, addErr |-> added.err,
                    ret |-> NewInfoFile(gpgKey, masterKey, typed, newSalt, fault)]
    /\ UNCHANGED <<oldVars, st, ui, tn>>

\* The slot wraps the master key: a passphrase slot that opens under the
\* passphrase typed, or a GPG slot for the GPG key.
WrapsMasterKey(k, gpgKey, masterKey, ty) ==
    IF gpgKey = ""
    THEN /\ k.GPGKey = ""
         /\ HashMatches(ty, k.Salt, k.ConfirmationHash)
         /\ UnwrapKey(KeyFromPassphrase(ty, k.Salt).key, k.MasterKey).key = masterKey
    ELSE /\ k.GPGKey = gpgKey
         /\ GPGDecrypt(k.MasterKey, {gpgKey}).key = masterKey

\* C23: whenever NewInfoFile returns a nil error, the info file returned is
\* not nil and has exactly one key slot, wrapping the new master key (a
\* passphrase slot without a GPG key, a GPG slot with one); when the key could
\* not be added the error returned is not nil.
C23_NilErrorMeansOneSlot ==
    nf.done =>
        /\ nf.ret.err = NoErr =>
              /\ ~nf.ret.isNil
              /\ Len(nf.ret.info.Keys) = 1
              /\ WrapsMasterKey(nf.ret.info.Keys[1], nf.gpgKey, nf.masterKey, typed)
        /\ nf.addErr # NoErr => nf.ret.err # NoErr

\* When AddKey succeeded, NewInfoFile returns the file with its one slot.
C23_OneSlotWhenAdded ==
    (nf.done /\ nf.ret.err = NoErr /\ nf.addErr = NoErr) =>
        /\ ~nf.ret.isNil
        /\ Len(nf.ret.info.Keys) = 1
        /\ WrapsMasterKey(nf.ret.info.Keys[1], nf.gpgKey, nf.masterKey, typed)

-----------------------------------------------------------------------------
(* Set when the encryption fails, and the end of the encrypting goroutine *)

\* C24: when EncryptFile fails after it wrote pieces to the pipe, Set returns
\* the encryption error with a nil tag, and nothing was committed under the
\* name: the truncated stream never becomes a blob.
C24_TruncatedNeverCommitted ==
    (sp.ret.done /\ sp.innerErr # NoErr /\ sp.ret.err = sp.innerErr
        /\ sp.next > 0 /\ sp.next <= sp.n) =>
        /\ sp.ret.tagOut = NilTag
        /\ sp.upc # "committed"
        /\ sp.content = Nil

\* C25: the encrypting goroutine always terminates, also when the upload
\* fails before it has read the whole pipe, and Set has returned only after
\* the goroutine stored innerErr and finished.
C25_ProducerTerminates ==
    /\ <>(sp.ppc = "done")
    /\ [](sp.ret.done => sp.ppc = "done")

-----------------------------------------------------------------------------
(* The mutex on every path of GetWithRange *)

\* How many times a reader did e.
CountOf(ev, e) == Len(SelectSeq(ev, LAMBDA x : x.e = e))

\* C26: GetWithRange releases the mutex exactly once on every path. A
\* GetWithRange that has returned (success, not found, empty blob, download
\* error or decryption error) locked once, unlocked once and does not hold the
\* mutex; a reader unlocks only while it holds the mutex; and when no reader
\* is between Lock and Unlock the mutex is free for the next one.
C26_MutexReleasedOnce ==
    /\ [](\A p \in Procs : GWRDone(p) =>
             /\ CountOf(rd[p].ev, "Lock") = 1
             /\ CountOf(rd[p].ev, "Unlock") = 1
             /\ mux # p)
    /\ [](\A p \in Procs : CountOf(rd[p].ev, "Unlock") <= CountOf(rd[p].ev, "Lock"))
    /\ []((\A p \in Procs : ~InCritical(p)) => mux = "free")
    /\ [][\A p \in Procs :
             CountOf(rd'[p].ev, "Unlock") > CountOf(rd[p].ev, "Unlock")
                => mux = p /\ mux' = "free"]_vars

\* C26 witness: a GetWithRange ended on a decryption error of the header
\* fetch, and the other reader has taken the mutex after it.
C26_Witness ==
    /\ GWRDone("r1") /\ rd["r1"].err = "ErrCrypto"
    /\ CountOf(rd["r1"].ev, "cache.Add") = 0
    /\ CountOf(rd["r1"].ev, "Unlock") = 1
    /\ rd["r2"].op = "GetWithRange" /\ rd["r2"].pc = "lookup" /\ mux = "r2"

-----------------------------------------------------------------------------
(* Server.Start: serving and the graceful shutdown (server) *)

\* Largest number of connections open at once, and of signals sent.
MaxConns == 2
MaxSignals == 2

\* http.ErrServerClosed
ErrServerClosed == "http: Server closed"

\* The other errors ListenAndServe returns: the listener cannot be opened, or
\* Accept fails while serving.
ListenErrs == {"listen tcp 127.0.0.1:3000: bind: address already in use"}
AcceptErrs == {"accept tcp 127.0.0.1:3000: too many open files"}

\* Start is about to call ListenAndServe; its goroutine is about to call
\* signal.Notify.
NewStart ==
    [pc |-> "listen", lsErr |-> NoErr, ret |-> NoErr,
     gpc |-> "notify", notified |-> FALSE, s |-> 0, sent |-> 0, killed |-> FALSE,
     inShutdown |-> FALSE, conns |-> 0, shutdownErr |-> NoErr, shutdownDone |-> FALSE,
     printed |-> FALSE, idleConnsClosed |-> FALSE]

StartFrame == <<oldVars, nf, ui, tn>>

\* The goroutine registers for SIGINT and SIGTERM (server.go:71-72).
ST_Notify ==
    /\ ~st.killed /\ st.pc # "returned"
    /\ st.gpc = "notify"
    /\ st' = [st EXCEPT !.gpc = "recv", !.notified = TRUE]
    /\ UNCHANGED StartFrame

\* The process is sent SIGINT or SIGTERM: the signal goes to the channel s
\* (of capacity 1, without blocking) once Notify was called, and ends the
\* process before that.
ST_Signal ==
    /\ ~st.killed /\ st.pc # "returned"
    /\ st.sent < MaxSignals
    /\ st' = IF st.notified
             THEN [st EXCEPT !.sent = @ + 1, !.s = 1]
             ELSE [st EXCEPT !.sent = @ + 1, !.killed = TRUE]
    /\ UNCHANGED StartFrame

\* The goroutine receives from s and calls server.Shutdown, which closes the
\* listener at once (server.go:73-76).
ST_Shutdown ==
    /\ ~st.killed /\ st.pc # "returned"
    /\ st.gpc = "recv"
    /\ st.s > 0
    /\ \E lnerr \in {NoErr, "close tcp 127.0.0.1:3000: use of closed network connection"} :
          st' = [st EXCEPT !.gpc = "shutdown", !.s = 0, !.inShutdown = TRUE,
                           !.shutdownErr = lnerr]
    /\ UNCHANGED StartFrame

\* server.Shutdown returns, with a background context only once every
\* connection is closed; its error is printed (server.go:76-79).
ST_ShutdownReturn ==
    /\ ~st.killed /\ st.pc # "returned"
    /\ st.gpc = "shutdown"
    /\ st.conns = 0
    /\ st' = [st EXCEPT !.gpc = "close", !.shutdownDone = TRUE,
                        !.printed = st.shutdownErr # NoErr]
    /\ UNCHANGED StartFrame

\* close(idleConnsClosed) (server.go:80).
ST_Close ==
    /\ ~st.killed /\ st.pc # "returned"
    /\ st.gpc = "close"
    /\ st' = [st EXCEPT !.gpc = "done", !.idleConnsClosed = TRUE]
    /\ UNCHANGED StartFrame

\* server.ListenAndServe is called: it returns ErrServerClosed when Shutdown
\* was called already, the error of the listener when it cannot be opened,
\* and serves otherwise (server.go:84).
ST_Listen ==
    /\ ~st.killed
    /\ st.pc = "listen"
    /\ \/ /\ st.inShutdown
          /\ st' = [st EXCEPT !.pc = "listened", !.lsErr = ErrServerClosed]
       \/ /\ ~st.inShutdown
          /\ \/ st' = [st EXCEPT !.pc = "serving"]
             \/ \E e \in ListenErrs : st' = [st EXCEPT !.pc = "listened", !.lsErr = e]
    /\ UNCHANGED StartFrame

\* A client connects while the server is serving.
ST_Connect ==
    /\ ~st.killed
    /\ st.pc = "serving" /\ ~st.inShutdown
    /\ st.conns < MaxConns
    /\ st' = [st EXCEPT !.conns = @ + 1]
    /\ UNCHANGED StartFrame

\* A connection ends: its request is served, it is idle and closed.
ST_Disconnect ==
    /\ ~st.killed /\ st.pc # "returned"
    /\ st.conns > 0
    /\ st' = [st EXCEPT !.conns = @ - 1]
    /\ UNCHANGED StartFrame

\* ListenAndServe returns: ErrServerClosed after Shutdown was called, the
\* error of Accept when accepting fails.
ST_ServeReturn ==
    /\ ~st.killed
    /\ st.pc = "serving"
    /\ IF st.inShutdown
       THEN st' = [st EXCEPT !.pc = "listened", !.lsErr = ErrServerClosed]
       ELSE \E e \in AcceptErrs : st' = [st EXCEPT !.pc = "listened", !.lsErr = e]
    /\ UNCHANGED StartFrame

\* A buggy Start: after ErrServerClosed it returns nil at once.
ST_CheckNoWait ==
    /\ ~st.killed
    /\ st.pc = "listened"
    /\ st' = IF st.lsErr # ErrServerClosed
             THEN [st EXCEPT !.pc = "returned", !.ret = st.lsErr]
             ELSE [st EXCEPT !.pc = "returned", !.ret = NoErr]
    /\ UNCHANGED StartFrame

\* Start looks at the error of ListenAndServe: any error but ErrServerClosed
\* is returned (server.go:84-86).
ST_Check ==
    /\ ~st.killed
    /\ st.pc = "listened"
    /\ st' = IF st.lsErr # ErrServerClosed
             THEN [st EXCEPT !.pc = "returned", !.ret = st.lsErr]
             ELSE [st EXCEPT !.pc = "wait"]
    /\ UNCHANGED StartFrame

\* <-idleConnsClosed, then return nil (server.go:87-89).
ST_Wait ==
    /\ ~st.killed
    /\ st.pc = "wait"
    /\ st.idleConnsClosed
    /\ st' = [st EXCEPT !.pc = "returned", !.ret = NoErr]
    /\ UNCHANGED StartFrame

\* C27: Start returns nil only after a signal was received and
\* server.Shutdown has returned, with every connection closed and
\* idleConnsClosed closed. When ListenAndServe stops with an error other than
\* ErrServerClosed, the next thing Start does is return that error, and it
\* does so whether a signal comes or not.
C27_GracefulShutdown ==
    /\ []((st.pc = "returned" /\ st.ret = NoErr) =>
             /\ st.sent > 0 /\ st.inShutdown
             /\ st.shutdownDone /\ st.idleConnsClosed /\ st.conns = 0
             /\ st.lsErr = ErrServerClosed)
    /\ []((st.pc = "returned" /\ st.ret # NoErr) =>
             st.ret = st.lsErr /\ st.lsErr # ErrServerClosed)
    /\ [][(st.pc = "listened" /\ st.lsErr # ErrServerClosed /\ st'.pc # st.pc)
             => (st'.pc = "returned" /\ st'.ret = st.lsErr)]_vars
    /\ (st.pc = "listened" /\ st.lsErr # ErrServerClosed)
          ~> ((st.pc = "returned" /\ st.ret = st.lsErr) \/ st.killed)

\* C27 witness: Start returned nil after a shutdown that waited for a
\* connection, or returned the error of Accept without any signal sent.
C27_Witness ==
    /\ st.pc = "returned"
    /\ \/ st.ret = NoErr /\ st.shutdownErr # NoErr /\ st.printed
       \/ st.ret \in AcceptErrs /\ st.sent = 0 /\ st.conns > 0

-----------------------------------------------------------------------------
(* The web UI: main and swMessage (ui) *)

\* Largest number of messages the service worker sends on its own.
MaxMessages == 2

Routes == {"/", "/unlock"}

\* A message of the service worker to the page.
SwMsg(message, enabled) == [message |-> message, enabled |-> enabled]

\* The page before main runs, in a browser where sw.js is registered or
\* not and controls the page or not.
NewPage(reg, controller, location) ==
    [pc |-> "init", loading |-> "none", app |-> FALSE, wasmCb |-> FALSE,
     reg |-> reg, controller |-> controller, listening |-> FALSE,
     toSw |-> <<>>, inbox |-> <<>>, sent |-> 0, pending |-> <<>>,
     location |-> location, wasm |-> FALSE, wasmSeen |-> 0, requests |-> 0, cbCalls |-> 0,
     trace |-> <<>>, redirects |-> <<>>]

UiFrame == <<oldVars, nf, st, tn>>

\* main after the try block: it listens to the messages of the service
\* worker, throws when the page has no controller, and otherwise asks for the
\* theme and for the wasm status, with wasmCb pending.
Proceed(u) ==
    IF ~u.controller
    THEN [u EXCEPT !.listening = TRUE, !.pc = "crashed"]
    ELSE [u EXCEPT !.listening = TRUE, !.pc = "awaitWasm", !.wasmCb = TRUE,
                   !.requests = @ + 1,
                   !.toSw = @ \o <<"get-theme", "get-wasm">>]

\* main after the wasm status came: the loading component goes, the App comes.
Mount(u) ==
    [u EXCEPT !.pc = "mounted", !.loading = "destroyed", !.app = TRUE,
              !.trace = @ \o <<"loading.$destroy", "new App">>]

\* A buggy swMessage: the callback is invoked before the check for the App.
swMessageCbFirst(u, m) ==
    CASE m.message = "unlocked" ->
            [u EXCEPT !.pending = Append(@, [kind |-> "unlocked", app |-> u.app])]
      [] m.message = "wasm" ->
            LET seen == [u EXCEPT !.wasm = m.enabled, !.wasmSeen = @ + 1]
                called == IF seen.wasmCb
                          THEN Mount([seen EXCEPT !.wasmCb = FALSE, !.cbCalls = @ + 1])
                          ELSE seen
            IN IF called.app
               THEN [called EXCEPT !.pending = Append(@, [kind |-> "wasm", app |-> u.app])]
               ELSE called
      [] OTHER -> u

\* swMessage up to its first wait for the network. 'unlocked' waits for
\* AppInfo.update. 'wasm' sets the store and, after tick, waits for
\* AppInfo.update when an App is mounted; when none is, it invokes the
\* pending callback, which lets main go on within the same turn of the event loop.
swMessage(u, m) ==
    CASE m.message = "unlocked" ->
            [u EXCEPT !.pending = Append(@, [kind |-> "unlocked", app |-> u.app])]
      [] m.message = "wasm" ->
            LET seen == [u EXCEPT !.wasm = m.enabled, !.wasmSeen = @ + 1]
            IN IF seen.app
               THEN [seen EXCEPT !.pending = Append(@, [kind |-> "wasm", app |-> TRUE])]
               ELSE IF seen.wasmCb
               THEN Mount([seen EXCEPT !.wasmCb = FALSE, !.cbCalls = @ + 1])
               ELSE seen
      [] OTHER -> u

\* push(to), with the message that caused it.
Push(u, to, c) ==
    [u EXCEPT !.location = to,
              !.redirects = Append(@, [to |-> to, from |-> u.location,
                                       kind |-> c.kind, app |-> c.app])]

\* main starts: the loading component is shown and the service worker is
\* being registered.
UI_Main ==
    /\ ui.pc = "init"
    /\ ui' = [ui EXCEPT !.pc = "registering", !.loading = "shown",
                        !.trace = Append(@, "new LoadingApp")]
    /\ UNCHANGED UiFrame

\* register('sw.js') resolves: main waits to be controlled, or goes on when
\* it is already.
UI_Registered ==
    /\ ui.pc = "registering"
    /\ LET r == [ui EXCEPT !.reg = TRUE]
       IN ui' = IF r.controller THEN Proceed(r) ELSE [r EXCEPT !.pc = "controlling"]
    /\ UNCHANGED UiFrame

\* register('sw.js') rejects: the error is logged and main goes on.
UI_RegisterFailed ==
    /\ ui.pc = "registering"
    /\ ui' = Proceed(ui)
    /\ UNCHANGED UiFrame

\* The registered service worker takes control of the page.
UI_ControllerChange ==
    /\ ui.reg /\ ~ui.controller
    /\ LET c == [ui EXCEPT !.controller = TRUE]
       IN ui' = IF c.pc = "controlling" THEN Proceed(c) ELSE c
    /\ UNCHANGED UiFrame

\* The service worker answers a request of the page.
SW_Reply ==
    /\ ui.toSw # <<>>
    /\ \E enabled \in BOOLEAN :
          ui' = [ui EXCEPT !.toSw = Tail(@),
                           !.inbox = Append(@, IF Head(ui.toSw) = "get-wasm"
                                               THEN SwMsg("wasm", enabled)
                                               ELSE SwMsg("theme", FALSE))]
    /\ UNCHANGED UiFrame

\* The service worker tells its pages that wasm was switched or that the
\* repository was unlocked.
SW_Broadcast ==
    /\ ui.controller
    /\ ui.sent < MaxMessages
    /\ \E m \in {SwMsg("wasm", TRUE), SwMsg("wasm", FALSE), SwMsg("unlocked", FALSE)} :
          ui' = [ui EXCEPT !.sent = @ + 1, !.inbox = Append(@, m)]
    /\ UNCHANGED UiFrame

\* A message event: swMessage runs when main has added it as listener.
UI_Message ==
    /\ ui.inbox # <<>>
    /\ LET taken == [ui EXCEPT !.inbox = Tail(@)]
       IN ui' = IF ui.listening THEN swMessage(taken, Head(ui.inbox)) ELSE taken
    /\ UNCHANGED UiFrame

\* AppInfo.update returns to a swMessage that waited for it: 'unlocked'
\* leaves /unlock when an App is mounted; 'wasm' goes to /unlock when the
\* repository is locked and leaves /unlock when it is not.
UI_AppInfo ==
    /\ ui.pending # <<>>
    /\ \E k \in 1..Len(ui.pending), repoUnlocked \in BOOLEAN :
          LET c == ui.pending[k]
              rest == [ui EXCEPT !.pending = SubSeq(@, 1, k - 1) \o SubSeq(@, k + 1, Len(@))]
          IN ui' = IF c.kind = "unlocked"
                   THEN IF rest.app /\ rest.location = "/unlock"
                        THEN Push(rest, "/", c) ELSE rest
                   ELSE IF ~repoUnlocked THEN Push(rest, "/unlock", c)
                   ELSE IF rest.location = "/unlock" THEN Push(rest, "/", c)
                   ELSE rest
    /\ UNCHANGED UiFrame

\* C28: the App is mounted only after the service worker was registered and
\* controls the page and a 'wasm' message was received; the loading
\* component is destroyed before the App is created; the pending wasm
\* callback is invoked at most once per request; a 'wasm' message received
\* while no App is mounted causes no redirect, to /unlock or from it.
C28_StartupOrder ==
    /\ ui.app => /\ ui.reg /\ ui.controller /\ ui.wasmSeen >= 1
                 /\ ui.loading = "destroyed"
                 /\ ui.trace = <<"new LoadingApp", "loading.$destroy", "new App">>
    /\ ~ui.app => \A n \in 1..Len(ui.trace) : ui.trace[n] # "new App"
    /\ ui.cbCalls <= ui.requests
    /\ ui.cbCalls = 1 <=> ui.app
    /\ \A n \in 1..Len(ui.redirects) :
          ui.redirects[n].kind = "wasm" => ui.redirects[n].app

\* C28 witness: two 'wasm' messages came during start-up, the App is mounted
\* and the callback was invoked once; a later 'wasm' message sent the page
\* to /unlock.
C28_Witness ==
    /\ ui.app /\ ui.cbCalls = 1 /\ ui.wasmSeen >= 3
    /\ Len(ui.redirects) >= 1
    /\ ui.redirects[1].kind = "wasm" /\ ui.redirects[1].to = "/unlock"

-----------------------------------------------------------------------------
(* IndexTreeNode: Find and Add (index) *)

\* Largest number of children of the node the model draws.
MaxChildren == 3

\* Names of children; Add takes any string, the empty one too.
TreeNames == {"", "a", "b"}

\* The *IndexElement of a child: nil for a folder.
NilFile == 0
TreeFiles == {NilFile, 1}

\* A nil *IndexTreeNode; nodes are told apart by their address.
NilNode == 0

\* The node Add allocates.
TreeNode(addr, name, file) == [addr |-> addr, Name |-> name, File |-> file]

\* Find returns the child node with the given name: the first one the loop
\* over Children comes to.
RECURSIVE FindFrom(_, _, _)
FindFrom(children, name, k) ==
    IF k > Len(children) THEN NilNode
    ELSE IF children[k].Name = name THEN children[k].addr
    ELSE FindFrom(children, name, k + 1)

Find(children, name) ==
    IF name = "" \/ Len(children) < 1 THEN NilNode ELSE FindFrom(children, name, 1)

\* A buggy Add: the new child is put in front of the others.
AddInFront(children, addr, name, file) ==
    [Children |-> <<TreeNode(addr, name, file)>> \o children, ret |-> addr]

\* Add a new child node: it is appended to Children and returned.
Add(children, addr, name, file) ==
    [Children |-> Append(children, TreeNode(addr, name, file)), ret |-> addr]

NewTree == [Children |-> <<>>, next |-> 1,
            last |-> [op |-> "none", name |-> "", file |-> NilFile, pre |-> <<>>,
                      ret |-> NilNode]]

TreeFrame == <<oldVars, nf, st, ui>>

\* A caller adds a child to the node.
TN_Add ==
    /\ Len(tn.Children) < MaxChildren
    /\ \E name \in TreeNames, file \in TreeFiles :
          LET r == Add(tn.Children, tn.next, name, file)
          IN tn' = [Children |-> r.Children, next |-> tn.next + 1,
                    last |-> [op |-> "Add", name |-> name, file |-> file,
                              pre |-> tn.Children, ret |-> r.ret]]
    /\ UNCHANGED TreeFrame

\* A caller looks a child up.
TN_Find ==
    /\ \E name \in TreeNames :
          tn' = [tn EXCEPT !.last = [op |-> "Find", name |-> name, file |-> NilFile,
                                     pre |-> tn.Children,
                                     ret |-> Find(tn.Children, name)]]
    /\ UNCHANGED TreeFrame

\* The children of that name, as positions in Children.
Named(children, name) == {k \in 1..Len(children) : children[k].Name = name}

\* The address of the earliest child of that name.
Earliest(children, name) ==
    children[CHOOSE k \in Named(children, name) :
                \A j \in Named(children, name) : k <= j].addr

\* C29: Add only appends: the children there were stay, in their order, and
\* the new child comes last. After Add(name, file) with a name that is not
\* empty, Find(name) returns the earliest child of that name, which is the
\* new child when there was none of that name. Find returns nil for the
\* empty name and for a name no child has, and the earliest child of the
\* name otherwise.
C29_AddAppendsFindFirst ==
    /\ [][IsPrefix(tn.Children, tn'.Children)]_vars
    /\ [](tn.last.op = "Add" =>
             /\ tn.Children = Append(tn.last.pre,
                                     TreeNode(tn.last.ret, tn.last.name, tn.last.file))
             /\ \A k \in 1..Len(tn.last.pre) : tn.last.pre[k].addr # tn.last.ret
             /\ tn.last.name # "" =>
                   /\ Find(tn.Children, tn.last.name) # NilNode
                   /\ Find(tn.Children, tn.last.name) = Earliest(tn.Children, tn.last.name)
                   /\ Named(tn.last.pre, tn.last.name) = {} =>
                         Find(tn.Children, tn.last.name) = tn.last.ret)
    /\ [](tn.last.op = "Find" =>
             IF tn.last.name = "" \/ Named(tn.Children, tn.last.name) = {}
             THEN tn.last.ret = NilNode
             ELSE tn.last.ret = Earliest(tn.Children, tn.last.name))

\* C29 witness: a second child of a name was added after another child, and
\* Find returns the first child of that name, not the new one.
C29_Witness ==
    /\ Len(tn.Children) = 3
    /\ tn.Children[1].Name = "a" /\ tn.Children[2].Name = "b" /\ tn.Children[3].Name = "a"
    /\ tn.last.op = "Add" /\ tn.last.name = "a"
    /\ Find(tn.Children, "a") = tn.Children[1].addr
    /\ Find(tn.Children, "a") # tn.last.ret

-----------------------------------------------------------------------------
(* Specifications *)

KeysIdle == info = InfoFile(3, <<>>, Nil, Nil) /\ agent = {} /\ typed = PromptFail
            /\ res = NoRes /\ up = NoUp
StoreIdle == blobs = [n \in Names |-> NoBlob] /\ nextTag = 1 /\ call = NoCall
IndexIdle == wr = [w \in Writers |-> [NewWriter EXCEPT !.pc = "done"]]
RemoveIdle == index = <<>> /\ rp = IdleRemove /\ log = <<>> /\ out = <<>>
GetIdle == cache = <<>> /\ get = NoGet
RangeIdle == rd = [p \in Procs |-> [NewReader EXCEPT !.pc = "done"]] /\ mux = "free"
SetIdle == sp = [NewSet(0, FALSE) EXCEPT !.ppc = "done", !.upc = "committed", !.ret.done = TRUE]
NoUrlYet == bu = NoUrl
NoRequestYet == fh = NoRequest
NewIdle == nf = NoNew
StartIdle == st = [NewStart EXCEPT !.pc = "returned", !.gpc = "done"]
UiIdle == ui = [NewPage(FALSE, FALSE, "/") EXCEPT !.pc = "closed"]
TreeIdle == tn = NewTree
LateIdle == NewIdle /\ StartIdle /\ UiIdle /\ TreeIdle
MoreIdle == RangeIdle /\ SetIdle /\ NoUrlYet /\ NoRequestYet /\ LateIdle

\* The commands on one repository: unlock, upgrade, unlock again.
InitKeys ==
    /\ info \in InfoFiles
    /\ agent \in SUBSET GPGIds
    /\ typed \in PromptOutcomes
    /\ res = NoRes
    /\ up = NoUp
    /\ StoreIdle /\ IndexIdle /\ RemoveIdle /\ GetIdle /\ MoreIdle

NextKeys == Unlock \/ Upgrade

SpecKeys == InitKeys /\ [][NextKeys]_vars

\* Callers writing blobs of an empty container.
InitStore == KeysIdle /\ StoreIdle /\ IndexIdle /\ RemoveIdle /\ GetIdle /\ MoreIdle

NextStore == DoRawSet \/ DoSet \/ DoDelete

SpecStore == InitStore /\ [][NextStore]_vars

\* Two writers saving the index, which exists or not at the start.
InitIndex ==
    /\ KeysIdle /\ RemoveIdle /\ GetIdle /\ MoreIdle
    /\ \/ StoreIdle
       \/ /\ blobs = [n \in Names |->
                        IF n = "_index" THEN [tag |-> 1, data |-> {"/old"}, complete |-> TRUE]
                        ELSE NoBlob]
          /\ nextTag = 2
          /\ call = NoCall
    /\ wr = [w \in Writers |-> NewWriter]

WStep(w) == WLoad(w) \/ WMutate(w) \/ WSave(w)

NextIndex == \E w \in Writers : WStep(w)

\* Each writer is a goroutine of its own that keeps running until it is done.
SpecIndex == InitIndex /\ [][NextIndex]_vars /\ \A w \in Writers : WF_vars(WStep(w))

\* One RemovePath on an index whose objects are in the store or missing.
InitRemove ==
    /\ KeysIdle /\ IndexIdle /\ GetIdle /\ MoreIdle
    /\ index \in Indexes
    /\ \E present \in SUBSET ObjectIds :
          blobs = [n \in Names |->
                     IF n \in present THEN [tag |-> 1, data |-> {"a"}, complete |-> TRUE]
                     ELSE NoBlob]
    /\ nextTag = 2
    /\ call = NoCall
    /\ rp = IdleRemove /\ log = <<>> /\ out = <<>>

NextRemove == RP_Start \/ RP_Delete

SpecRemove == InitRemove /\ [][NextRemove]_vars

\* Callers reading the blobs of a container: present, empty or missing.
InitGet ==
    /\ KeysIdle /\ IndexIdle /\ RemoveIdle /\ MoreIdle
    /\ blobs \in [Names -> {NoBlob, [tag |-> 1, data |-> {"a"}, complete |-> TRUE],
                            [tag |-> 2, data |-> {}, complete |-> TRUE]}]
    /\ nextTag = 3
    /\ call = NoCall
    /\ GetIdle

NextGet == DoGet

SpecGet == InitGet /\ [][NextGet]_vars

\* Two readers on a container whose files are present, empty or missing,
\* with a cache that earlier reads have filled or not.
InitRange ==
    /\ KeysIdle /\ IndexIdle /\ RemoveIdle
    /\ \E o1 \in {NoBlob, [tag |-> 1, data |-> {"a"}, complete |-> TRUE],
                  [tag |-> 2, data |-> {}, complete |-> TRUE]} :
          blobs = [n \in Names |->
                     IF n = "o1" THEN o1 ELSE [tag |-> 3, data |-> {"b"}, complete |-> TRUE]]
    /\ nextTag = 4
    /\ call = NoCall
    /\ cache \in {<<>>, <<"o1">>, <<"o2", "o1">>}
    /\ get = NoGet
    /\ rd = [p \in Procs |-> NewReader]
    /\ mux = "free"
    /\ SetIdle /\ NoUrlYet /\ NoRequestYet /\ LateIdle

RStep(p) ==
    \/ GR_Lock(p) \/ GR_Lookup(p) \/ GR_Header(p) \/ GR_Parse(p) \/ GR_Add(p)
    \/ GR_Unlock(p) \/ GR_Range(p)
    \/ G_Download(p) \/ G_Lock(p) \/ G_Add(p) \/ G_Unlock(p)

NextRange == \E p \in Procs : RStep(p)

SpecRange == InitRange /\ [][NextRange]_vars

\* One Set with a nil tag of a file of up to MaxChunks chunks, to a name
\* that is free or taken.
InitPipe ==
    /\ KeysIdle /\ StoreIdle /\ IndexIdle /\ RemoveIdle /\ GetIdle /\ RangeIdle /\ NoUrlYet /\ NoRequestYet /\ LateIdle
    /\ \E n \in 0..MaxChunks, present \in BOOLEAN : sp = NewSet(n, present)

NextPipe ==
    \/ P_Write \/ P_WriteDone \/ P_Fail \/ P_Close
    \/ U_Read \/ U_Eof \/ U_Stage \/ U_Commit \/ U_Fail
    \/ S_Return

SpecPipe == InitPipe /\ [][NextPipe]_vars

\* Backend operations asking for blob URLs.
InitUrl == KeysIdle /\ StoreIdle /\ IndexIdle /\ RemoveIdle /\ GetIdle /\ MoreIdle

NextUrl == DoBlobUrl

SpecUrl == InitUrl /\ [][NextUrl]_vars

\* Requests for the files of a container: present, empty or missing.
InitFile ==
    /\ KeysIdle /\ IndexIdle /\ RemoveIdle /\ GetIdle
    /\ RangeIdle /\ SetIdle /\ NoUrlYet /\ NoRequestYet /\ LateIdle
    /\ \E o1 \in {NoBlob, [tag |-> 1, data |-> {"a"}, complete |-> TRUE],
                  [tag |-> 2, data |-> {}, complete |-> TRUE]} :
          blobs = [n \in Names |->
                     IF n = "o1" THEN o1 ELSE [tag |-> 3, data |-> {"b"}, complete |-> TRUE]]
    /\ nextTag = 4
    /\ call = NoCall

NextFile == DoFileHandler

SpecFile == InitFile /\ [][NextFile]_vars


\* prvt repo init: one NewInfoFile, on a machine whose GPG agent holds any of
\* the secret keys, with whatever the user types at the prompt.
InitNew ==
    /\ StoreIdle /\ IndexIdle /\ RemoveIdle /\ GetIdle
    /\ RangeIdle /\ SetIdle /\ NoUrlYet /\ NoRequestYet
    /\ info = NewInfo /\ res = NoRes /\ up = NoUp
    /\ agent \in SUBSET GPGIds
    /\ typed \in PromptOutcomes
    /\ nf = NoNew
    /\ StartIdle /\ UiIdle /\ TreeIdle

NextNew == DoNewInfoFile

SpecNew == InitNew /\ [][NextNew]_vars


\* The same Set where the encrypting goroutine, the upload and Set itself
\* each keep running while they have a step to take.
SpecPipeFair ==
    /\ InitPipe /\ [][NextPipe]_vars
    /\ WF_vars(P_Write \/ P_WriteDone \/ P_Fail \/ P_Close)
    /\ WF_vars(U_Read \/ U_Eof \/ U_Stage \/ U_Commit \/ U_Fail)
    /\ WF_vars(S_Return)


\* prvt serve: Start and its signal goroutine keep running while they have a
\* step to take; signals and clients come when they will.
InitStart ==
    /\ KeysIdle /\ StoreIdle /\ IndexIdle /\ RemoveIdle /\ GetIdle
    /\ RangeIdle /\ SetIdle /\ NoUrlYet /\ NoRequestYet
    /\ NewIdle /\ UiIdle /\ TreeIdle
    /\ st = NewStart

NextStart ==
    \/ ST_Notify \/ ST_Signal \/ ST_Shutdown \/ ST_ShutdownReturn \/ ST_Close
    \/ ST_Listen \/ ST_Connect \/ ST_Disconnect \/ ST_ServeReturn
    \/ ST_Check \/ ST_Wait

SpecStart ==
    /\ InitStart /\ [][NextStart]_vars
    /\ WF_vars(ST_Listen \/ ST_Check \/ ST_Wait)
    /\ WF_vars(ST_Notify \/ ST_Shutdown \/ ST_ShutdownReturn \/ ST_Close)


\* One load of the page, in a browser where sw.js is already registered or
\* not, and already controls the page or not.
InitUi ==
    /\ KeysIdle /\ StoreIdle /\ IndexIdle /\ RemoveIdle /\ GetIdle
    /\ RangeIdle /\ SetIdle /\ NoUrlYet /\ NoRequestYet
    /\ NewIdle /\ StartIdle /\ TreeIdle
    /\ \E reg \in BOOLEAN, controller \in BOOLEAN, location \in Routes :
          /\ controller => reg
          /\ ui = NewPage(reg, controller, location)

NextUi ==
    \/ UI_Main \/ UI_Registered \/ UI_RegisterFailed \/ UI_ControllerChange
    \/ SW_Reply \/ SW_Broadcast \/ UI_Message \/ UI_AppInfo

SpecUi == InitUi /\ [][NextUi]_vars


\* Callers adding children to a new node and looking them up.
InitTree ==
    /\ KeysIdle /\ StoreIdle /\ IndexIdle /\ RemoveIdle /\ GetIdle
    /\ RangeIdle /\ SetIdle /\ NoUrlYet /\ NoRequestYet
    /\ NewIdle /\ StartIdle /\ UiIdle
    /\ tn = NewTree

NextTree == TN_Add \/ TN_Find

SpecTree == InitTree /\ [][NextTree]_vars

====
